---- MODULE Spec2Model ----
(***************************************************************************)
(* Model of the session registry (package session, Store) of seanime's     *)
(* multi-user core: the session map and the client map behind one          *)
(* sync.RWMutex, the request goroutines that call the Store, and the       *)
(* background cleanup goroutine.                                           *)
(*                                                                         *)
(* Every critical section of the Store (the code between Lock/RLock and    *)
(* the matching Unlock) is one atomic action; code between two critical    *)
(* sections of one call is a position of the calling goroutine (pc).       *)
(* A *Session is a record carrying an object identity (oid); a write       *)
(* through the pointer updates every holder of that oid.  Time is counted  *)
(* in days.                                                                *)
(***************************************************************************)
EXTENDS Integers, Sequences, FiniteSets, TLC

\* ---------------------------------------------------------------- bounds
Ids == {"s1", "s2"}              \* session ids (cookie values)
Procs == {"p1", "p2"}            \* request goroutines
SeqProc == "p1"                  \* the only caller of the sequential specifications
Tokens == {"T1", "T2"}           \* non-empty Anilist tokens
ViewerNames == {"alice"}         \* non-empty viewer names
ConcIds == {"s1"}                \* the id the concurrent callers contend for
MaxTime == 8                     \* the clock stops here

\* 7 * 24 * time.Hour, in days
Retention == 7

\* the clock is read on day 0 and on the days around the retention window
TickSteps == {Retention, Retention + 1}

VARIABLES
  sessions,   \* Store.sessions : id -> *Session (NoSession when absent)
  clients,    \* Store.clients  : id -> AnilistClient (NoClient when absent)
  now,        \* time.Now(), in days
  pc,         \* position of each request goroutine
  loc,        \* locals / last returned value of each request goroutine
  authed,     \* history: id -> token of the last undisturbed, returned login
  win,        \* history: per call, the login it ran under (see ObsBegin)
  hist,       \* history: the last two completed operations (sequential use)
  evicted,    \* history: ids removed by the most recent cleanup
  hpc,        \* position of the torrent-client request handler
  req,        \* the handler's bound request body and locals
  resp,       \* the handler's response
  calls,      \* the collaborator calls the handler has issued, in order
  daemon,     \* the torrent client: running flag and the torrents it holds
  preMatches, \* rows of the torrent_pre_matches table
  task,       \* the collection-sync goroutine of the last download request
  collection, \* media ids of the remote anime collection
  before,     \* history: the torrent client as the current request found it
  sloc,       \* locals / result of each caller of the pre-match store
  lastSaved,  \* history: destination -> media id of the last save that returned nil
  app,        \* App: whether SessionStore is set, AnilistClientRef, the platform installed
  call,       \* the App or auth-handler call in progress: arguments, locals, result
  held,       \* history: what the session store and the App held when the call began
  selection,  \* the torrent client's smart select in progress: files, episodes, choice
  lastStatus  \* history: the last status query answered, with what it was asked over

tvars == <<hpc, req, resp, calls, daemon, preMatches, task, collection, before>>
pvars == <<sloc, lastSaved>>
avars == <<app, call, held>>
xvars == <<selection, lastStatus>>
hvars == <<tvars, pvars, avars, xvars>>
svars == <<sessions, clients, pc, loc, authed, win, hist, evicted>>
vars == <<sessions, clients, now, pc, loc, authed, win, hist, evicted,
          hpc, req, resp, calls, daemon, preMatches, task, collection, before,
          sloc, lastSaved, app, call, held, selection, lastStatus>>
store == <<sessions, clients>>

\* ---------------------------------------------------------------- values
NilViewer == [isNil |-> TRUE, Name |-> ""]
Viewer(n) == [isNil |-> FALSE, Name |-> n]
Viewers == {Viewer(n) : n \in ViewerNames}

\* json.Marshal followed by json.Unmarshal into a new struct: a copy
CopyViewer(v) == [isNil |-> FALSE, Name |-> v.Name]

NoSession == [oid |-> 0, ID |-> "", Token |-> "", Username |-> "",
              Viewer |-> NilViewer, CreatedAt |-> 0, LastAccessed |-> 0,
              IsSimulated |-> FALSE]

NoClient == [ref |-> 0, token |-> ""]

NoLoc == [op |-> "none", id |-> "", sess |-> NoSession, cli |-> NoClient, tok |-> ""]

MaxObjs == Cardinality(Ids) + Cardinality(Procs) + 1

UsedOids == {sessions[i].oid : i \in Ids} \cup {loc[p].sess.oid : p \in Procs}
FreshOid == CHOOSE n \in 1..MaxObjs : n \notin UsedOids /\ \A m \in 1..(n-1) : m \in UsedOids

UsedRefs == {clients[i].ref : i \in Ids} \cup {loc[p].cli.ref : p \in Procs}
FreshRef == CHOOSE n \in 1..MaxObjs : n \notin UsedRefs /\ \A m \in 1..(n-1) : m \in UsedRefs

\* anilist.NewAnilistClient(token, cacheDir): a new client object
NewAnilistClient(token) == [ref |-> FreshRef, token |-> token]

\* the write session.LastAccessed = t through a pointer to object o
Touch(s, o, t) == IF s.oid = o /\ o # 0 THEN [s EXCEPT !.LastAccessed = t] ELSE s

\* ---------------------------------------------------------------- initial state
\* NewStore: two empty maps; every goroutine is outside the Store
BaseInit ==
  /\ sessions = [i \in Ids |-> NoSession]
  /\ clients = [i \in Ids |-> NoClient]
  /\ now = 0
  /\ pc = [p \in Procs |-> "idle"]
  /\ loc = [p \in Procs |-> NoLoc]

\* ---------------------------------------------------------------- torrent-client values
\* a path is the sequence of its characters
NoPath == <<>>

\* filepath.IsAbs on a Unix build: the path begins with the separator
IsAbs(path) == Len(path) > 0 /\ path[1] = "/"

\* a request that carries no media object, and one that carries media id
NilMedia == [isNil |-> TRUE, ID |-> 0]
Media(id) == [isNil |-> FALSE, ID |-> id]

NoReq == [kind |-> "none", destination |-> NoPath, torrents |-> <<>>,
          smartSelect |-> FALSE, deselect |-> FALSE, media |-> NilMedia,
          completeAnime |-> "", magnets |-> <<>>, hash |-> "", provider |-> "",
          exists |-> FALSE, files |-> {}, destToMediaId |-> {}, idx |-> 0,
          result |-> <<>>]

NoResp == [status |-> "none", data |-> {}]
RespondWithData(d) == [status |-> "data", data |-> d]
RespondWithError == [status |-> "error", data |-> {}]
\* a run-time panic unwinds the handler: no data is written by it
Panicked == [status |-> "panic", data |-> {}]

NoTask == [pc |-> "none", media |-> NilMedia, log |-> <<>>]

StoppedDaemon == [running |-> FALSE, torrents |-> {}]

\* ---- the torrent_pre_matches table
\* util.NormalizePath: separators and case made canonical
NormalizeChar(c) == IF c = "\\" THEN "/" ELSE IF c = "A" THEN "a" ELSE c
NormalizePath(path) == [i \in 1..Len(path) |-> NormalizeChar(path[i])]

\* models.TorrentPreMatch; ID 0 stands for no row
PreMatchRow(rid, dest, id, t) == [ID |-> rid, Destination |-> dest, MediaId |-> id,
                                  CreatedAt |-> t]
NoRow == PreMatchRow(0, NoPath, 0, 0)

\* the destinations callers save, normalized
PreDests == {<<"/", "a">>, <<"/", "A">>, <<"/", "a", "/", "b">>, <<"/", "b">>}
NormDests == {NormalizePath(d) : d \in PreDests}

NoSave == [op |-> "none", pc |-> "idle", dest |-> NoPath, id |-> 0, existing |-> NoRow,
           err |-> FALSE, fault |-> FALSE, fresh |-> FALSE, found |-> FALSE]

PreMatchInit ==
  /\ sloc = [p \in Procs |-> NoSave]
  /\ lastSaved = [d \in NormDests |-> 0]

\* the handler at rest, before any request: what construction leaves
HandlerInit ==
  /\ hpc = "idle"
  /\ req = NoReq
  /\ resp = NoResp
  /\ calls = <<>>
  /\ preMatches = <<>>
  /\ task = NoTask
  /\ PreMatchInit

\* ---- the App around the session store
\* a *int argument
NilInt == [isNil |-> TRUE, val |-> 0]
IntPtr(n) == [isNil |-> FALSE, val |-> n]

\* the client behind AnilistClientRef; its objects are numbered below zero
DefaultClient(n, token) == [ref |-> 0 - n, token |-> token]

NewApp(hasStore) ==
  [SessionStore |-> hasStore, AnilistClientRef |-> DefaultClient(1, ""), Platform |-> "initial"]

NoCall == [op |-> "none", pc |-> "idle", sessionID |-> "", token |-> "", viewer |-> NilViewer,
           mediaID |-> 0, progress |-> 0, totalEpisodes |-> NilInt, client |-> NoClient,
           sent |-> <<>>, log |-> <<>>, err |-> FALSE]

NoHeld == [session |-> NoSession, client |-> NoClient, default |-> NoClient]

\* no smart select in progress; files are [Episode, Size], episode 0 for a
\* name that carries no episode number
NoSelection == [pc |-> "idle", files |-> <<>>, episodes |-> <<>>, idx |-> 0,
                selected |-> {}, deselected |-> {}]

NoStatus == [torrents |-> <<>>, dests |-> {}, data |-> {}, asked |-> FALSE]

\* no call in progress
CallInit ==
  /\ call = NoCall
  /\ held = NoHeld
  /\ selection = NoSelection
  /\ lastStatus = NoStatus

\* everything but the App
RestInit ==
  /\ CallInit
  /\ BaseInit
  /\ HandlerInit
  /\ daemon = StoppedDaemon
  /\ collection = {}
  /\ before = StoppedDaemon
  /\ authed = [i \in Ids |-> ""]
  /\ win = [p \in Procs |-> ""]
  /\ hist = <<[op |-> "none", id |-> "", oid |-> 0, la |-> 0, fresh |-> FALSE],
              [op |-> "none", id |-> "", oid |-> 0, la |-> 0, fresh |-> FALSE]>>
  /\ evicted = {}

\* the App with its session store
Init ==
  /\ app = NewApp(TRUE)
  /\ RestInit

\* an App built with or without a session store
AnyAppInit ==
  /\ app \in {NewApp(TRUE), NewApp(FALSE)}
  /\ RestInit

\* ---------------------------------------------------------------- Store.GetSession
\* faulty variant: a lookup that never finds the stored session
GetSession_Read_AlwaysNew(p, id) ==
  /\ pc[p] = "idle"
  /\ loc' = [loc EXCEPT ![p] = [NoLoc EXCEPT !.op = "get", !.id = id, !.sess = sessions[id]]]
  /\ pc' = [pc EXCEPT ![p] = "gs_create"]
  /\ UNCHANGED <<sessions, clients, now>>

\* lines 162-164: the lookup under RLock
GetSession_Read(p, id) ==
  /\ pc[p] = "idle"
  /\ loc' = [loc EXCEPT ![p] = [NoLoc EXCEPT !.op = "get", !.id = id, !.sess = sessions[id]]]
  /\ pc' = [pc EXCEPT ![p] = IF sessions[id].oid = 0 THEN "gs_create" ELSE "gs_touch"]
  /\ UNCHANGED <<sessions, clients, now>>

\* lines 168-176: the new simulated session, built outside the lock
GetSession_Create(p) ==
  /\ pc[p] = "gs_create"
  /\ loc' = [loc EXCEPT ![p].sess =
               [oid |-> FreshOid, ID |-> loc[p].id, Token |-> "", Username |-> "",
                Viewer |-> NilViewer, CreatedAt |-> now, LastAccessed |-> now,
                IsSimulated |-> TRUE]]
  /\ pc' = [pc EXCEPT ![p] = "gs_store"]
  /\ UNCHANGED <<sessions, clients, now>>

\* lines 177-179 and 187: the store under Lock, then return session
GetSession_Store(p) ==
  /\ pc[p] = "gs_store"
  /\ sessions' = [sessions EXCEPT ![loc[p].id] = loc[p].sess]
  /\ pc' = [pc EXCEPT ![p] = "idle"]
  /\ UNCHANGED <<clients, now, loc>>

\* faulty variant: a hit that returns s.sessions[sessionID], read again after the write
GetSession_Touch_Reread(p) ==
  /\ pc[p] = "gs_touch"
  /\ sessions' = [i \in Ids |-> Touch(sessions[i], loc[p].sess.oid, now)]
  /\ loc' = [q \in Procs |->
               IF q = p THEN [loc[q] EXCEPT !.sess = sessions'[loc[p].id]]
               ELSE [loc[q] EXCEPT !.sess = Touch(loc[q].sess, loc[p].sess.oid, now)]]
  /\ pc' = [pc EXCEPT ![p] = "idle"]
  /\ UNCHANGED <<clients, now>>

\* lines 182-184 and 187: session.LastAccessed = time.Now() under Lock, on the
\* object read at line 163 (a write through a nil pointer would panic), then
\* return session
GetSession_Touch(p) ==
  /\ pc[p] = "gs_touch"
  /\ IF loc[p].sess.oid = 0
       THEN /\ pc' = [pc EXCEPT ![p] = "panic"]
            /\ UNCHANGED <<sessions, loc>>
       ELSE /\ sessions' = [i \in Ids |-> Touch(sessions[i], loc[p].sess.oid, now)]
            /\ loc' = [q \in Procs |->
                         [loc[q] EXCEPT !.sess = Touch(loc[q].sess, loc[p].sess.oid, now)]]
            /\ pc' = [pc EXCEPT ![p] = "idle"]
  /\ UNCHANGED <<clients, now>>

\* ---------------------------------------------------------------- Store.SetSession
\* lines 195-196, under Lock: the session map after SetSession(s)
SetSession(s) == [sessions EXCEPT ![s.ID] = [s EXCEPT !.LastAccessed = now]]

\* a caller's SetSession(session) with a session it has built
SetSession_Call(p, s) ==
  /\ pc[p] = "idle"
  /\ sessions' = SetSession(s)
  /\ loc' = [loc EXCEPT ![p] = [NoLoc EXCEPT !.op = "set", !.id = s.ID]]
  /\ UNCHANGED <<clients, now, pc>>

\* ---------------------------------------------------------------- Store.DeleteSession
DeleteSession(p, id) ==
  /\ pc[p] = "idle"
  /\ sessions' = [sessions EXCEPT ![id] = NoSession]
  /\ clients' = [clients EXCEPT ![id] = NoClient]
  /\ loc' = [loc EXCEPT ![p] = [NoLoc EXCEPT !.op = "delete", !.id = id]]
  /\ UNCHANGED <<now, pc>>

\* ---------------------------------------------------------------- Store.GetAnilistClient
\* lines 217-220: the token the new client is built with
ClientToken(session) ==
  IF session.oid # 0 /\ ~session.IsSimulated THEN session.Token ELSE ""

\* lines 210-213 under RLock; line 215 decides; a hit returns at line 228
GetAnilistClient_Read(p, id) ==
  /\ pc[p] = "idle"
  /\ IF clients[id].ref # 0
       THEN /\ loc' = [loc EXCEPT ![p] = [NoLoc EXCEPT !.op = "getClient", !.id = id,
                                                       !.cli = clients[id]]]
            /\ pc' = pc
       ELSE /\ loc' = [loc EXCEPT ![p] = [NoLoc EXCEPT !.op = "getClient", !.id = id,
                                                       !.tok = ClientToken(sessions[id])]]
            /\ pc' = [pc EXCEPT ![p] = "gc_put"]
  /\ UNCHANGED <<sessions, clients, now>>

\* lines 221-225 and 228: build the client, store it under Lock, return it
GetAnilistClient_Put(p) ==
  /\ pc[p] = "gc_put"
  /\ LET client == NewAnilistClient(loc[p].tok) IN
       /\ clients' = [clients EXCEPT ![loc[p].id] = client]
       /\ loc' = [loc EXCEPT ![p].cli = client, ![p].tok = ""]
  /\ pc' = [pc EXCEPT ![p] = "idle"]
  /\ UNCHANGED <<sessions, now>>

\* ---------------------------------------------------------------- Store.UpdateAnilistClient
\* faulty variant: no client is built for the empty token
UpdateAnilistClient_SkipEmpty(id, token) ==
  IF token = "" THEN clients ELSE [clients EXCEPT ![id] = NewAnilistClient(token)]

\* faulty variant: one client object stored for every id
UpdateAnilistClient_Shared(id, token) == [i \in Ids |-> NewAnilistClient(token)]

\* lines 233-237: the client map after UpdateAnilistClient(id, token)
UpdateAnilistClient(id, token) == [clients EXCEPT ![id] = NewAnilistClient(token)]

\* ---------------------------------------------------------------- Store.Login
\* lines 244-262: copy the viewer (Marshal and Unmarshal of a viewer value do
\* not fail, so the error returns are not taken), build the authenticated session
LoginSession(id, token, viewer) ==
  [oid |-> FreshOid, ID |-> id, Token |-> token, Username |-> viewer.Name,
   Viewer |-> CopyViewer(viewer), CreatedAt |-> now, LastAccessed |-> now,
   IsSimulated |-> FALSE]

Login_Build(p, id, token, viewer) ==
  /\ pc[p] = "idle"
  /\ loc' = [loc EXCEPT ![p] = [NoLoc EXCEPT !.op = "login", !.id = id, !.tok = token,
                                            !.sess = LoginSession(id, token, viewer)]]
  /\ pc' = [pc EXCEPT ![p] = "set_session"]
  /\ UNCHANGED <<sessions, clients, now>>

\* ---------------------------------------------------------------- Store.Logout
\* faulty variant: a logout that flags the stored session instead of replacing it
LogoutSession_KeepsToken(id) ==
  [oid |-> FreshOid, ID |-> id, Token |-> sessions[id].Token, Username |-> sessions[id].Username,
   Viewer |-> sessions[id].Viewer, CreatedAt |-> now, LastAccessed |-> now,
   IsSimulated |-> TRUE]

\* lines 272-280: the fresh simulated session
LogoutSession(id) ==
  [oid |-> FreshOid, ID |-> id, Token |-> "", Username |-> "",
   Viewer |-> NilViewer, CreatedAt |-> now, LastAccessed |-> now,
   IsSimulated |-> TRUE]

Logout_Build(p, id) ==
  /\ pc[p] = "idle"
  /\ loc' = [loc EXCEPT ![p] = [NoLoc EXCEPT !.op = "logout", !.id = id, !.tok = "",
                                            !.sess = LogoutSession(id)]]
  /\ pc' = [pc EXCEPT ![p] = "set_session"]
  /\ UNCHANGED <<sessions, clients, now>>

\* lines 264 and 282: s.SetSession(session) inside Login and Logout
Call_SetSession(p) ==
  /\ pc[p] = "set_session"
  /\ sessions' = SetSession(loc[p].sess)
  /\ loc' = [loc EXCEPT ![p].sess = NoSession]
  /\ pc' = [pc EXCEPT ![p] = "update_client"]
  /\ UNCHANGED <<clients, now>>

\* lines 265 and 283: s.UpdateAnilistClient(sessionID, token), then return
Call_UpdateAnilistClient(p) ==
  /\ pc[p] = "update_client"
  /\ clients' = UpdateAnilistClient(loc[p].id, loc[p].tok)
  /\ loc' = [loc EXCEPT ![p].tok = ""]
  /\ pc' = [pc EXCEPT ![p] = "idle"]
  /\ UNCHANGED <<sessions, now>>

\* ---------------------------------------------------------------- Store.cleanup
\* faulty variant: not-after instead of before
IsStale_Inclusive(s, t) == s.LastAccessed <= t - Retention

\* line 329: session.LastAccessed.Before(cutoff), cutoff = now - 7 days
IsStale(s, t) == s.LastAccessed < t - Retention

\* lines 328-333: the range over the session map, in any order; m = <<sessions, clients>>
RECURSIVE CleanupRange(_, _, _)
CleanupRange(todo, m, t) ==
  IF todo = {} THEN m
  ELSE LET id == CHOOSE i \in todo : TRUE IN
       IF IsStale(m[1][id], t)
         THEN CleanupRange(todo \ {id},
                           <<[m[1] EXCEPT ![id] = NoSession], [m[2] EXCEPT ![id] = NoClient]>>, t)
         ELSE CleanupRange(todo \ {id}, m, t)

\* the whole of cleanup(), under Lock
Cleanup ==
  /\ LET m == CleanupRange({i \in Ids : sessions[i].oid # 0}, <<sessions, clients>>, now) IN
       /\ sessions' = m[1]
       /\ clients' = m[2]
  /\ UNCHANGED <<now, pc, loc>>

\* ---------------------------------------------------------------- time
Tick ==
  /\ \E d \in TickSteps :
       /\ now + d <= MaxTime
       /\ now' = now + d
  /\ UNCHANGED <<sessions, clients, pc, loc>>

\* ---------------------------------------------------------------- callers' inputs
\* the sessions a caller of SetSession builds: a guest or an authenticated one
CallerSessions(id) ==
  {LogoutSession(id)} \cup {LoginSession(id, t, v) : t \in Tokens, v \in Viewers}

\* ---------------------------------------------------------------- history variables
\* They record what has happened and are read by no action of the Store.
Ev(op, id, oid, la, fresh) == [op |-> op, id |-> id, oid |-> oid, la |-> la, fresh |-> fresh]

\* hist = <<the operation before the last one, with the session it returned;
\*          the last completed operation>>
\* the caller starts an operation: what it last did, and got, becomes the past
Past(p) == Ev(hist[2].op, hist[2].id, loc[p].sess.oid, loc[p].sess.LastAccessed, hist[2].fresh)
Begin(p) == hist' = <<Past(p), Ev("running", "", 0, 0, FALSE)>>
\* the operation returns
End(op, id, fresh) == hist' = <<hist[1], Ev(op, id, 0, 0, fresh)>>
\* an operation of a single critical section
Whole(p, op, id) == hist' = <<Past(p), Ev(op, id, 0, 0, FALSE)>>

\* the calls of q that are inside Login or Logout for id
Mutating(q, id) == pc[q] # "idle" /\ loc[q].id = id /\ loc[q].op \in {"login", "logout"}

\* a login, logout, delete or eviction disturbs the ids in D: no login is the
\* last word on them any more, and the calls in flight on them ran across it
Disturb(D, p, w) ==
  /\ authed' = [i \in Ids |-> IF i \in D THEN "" ELSE authed[i]]
  /\ win' = [q \in Procs |->
               IF q = p THEN w
               ELSE IF pc[q] # "idle" /\ loc[q].id \in D THEN "" ELSE win[q]]

EvictedBy(old, new) == {i \in Ids : old[i].oid # 0 /\ new[i].oid = 0}

\* ---------------------------------------------------------------- concurrent use
\* Any number of request goroutines inside the Store, the cleanup goroutine
\* and the clock, interleaved at the granularity of the critical sections.
ConcNext ==
  \/ \E p \in Procs, id \in ConcIds :
       GetSession_Read(p, id) /\ win' = [win EXCEPT ![p] = ""]
         /\ UNCHANGED <<authed, hist, evicted, hvars>>
  \/ \E p \in Procs : GetSession_Create(p) /\ UNCHANGED <<authed, win, hist, evicted, hvars>>
  \/ \E p \in Procs : GetSession_Store(p) /\ UNCHANGED <<authed, win, hist, evicted, hvars>>
  \/ \E p \in Procs : GetSession_Touch(p) /\ UNCHANGED <<authed, win, hist, evicted, hvars>>
  \/ \E p \in Procs, id \in ConcIds :
       GetAnilistClient_Read(p, id) /\ win' = [win EXCEPT ![p] = authed[id]]
         /\ UNCHANGED <<authed, hist, evicted, hvars>>
  \/ \E p \in Procs : GetAnilistClient_Put(p) /\ UNCHANGED <<authed, win, hist, evicted, hvars>>
  \/ \E p \in Procs, id \in ConcIds, t \in Tokens, v \in Viewers :
       Login_Build(p, id, t, v)
         /\ Disturb({id}, p, IF \E q \in Procs \ {p} : Mutating(q, id) THEN "" ELSE t)
         /\ UNCHANGED <<hist, evicted, hvars>>
  \/ \E p \in Procs, id \in ConcIds :
       Logout_Build(p, id) /\ Disturb({id}, p, "") /\ UNCHANGED <<hist, evicted, hvars>>
  \/ \E p \in Procs : Call_SetSession(p) /\ UNCHANGED <<authed, win, hist, evicted, hvars>>
  \/ \E p \in Procs :
       Call_UpdateAnilistClient(p)
         /\ authed' = (IF loc[p].op = "login" THEN [authed EXCEPT ![loc[p].id] = win[p]]
                       ELSE authed)
         /\ UNCHANGED <<win, hist, evicted, hvars>>
  \/ \E p \in Procs, id \in ConcIds :
       DeleteSession(p, id) /\ Disturb({id}, p, "") /\ UNCHANGED <<hist, evicted, hvars>>
  \/ Cleanup /\ evicted' = EvictedBy(sessions, sessions')
             /\ Disturb(evicted', "", "") /\ UNCHANGED <<hist, hvars>>
  \/ Tick /\ UNCHANGED <<authed, win, hist, evicted, hvars>>

ConcSpec == Init /\ [][ConcNext]_vars

\* ---------------------------------------------------------------- sequential use
\* One caller; an operation runs to its return before the next one, or a
\* cleanup, starts.
SeqFrame == UNCHANGED <<authed, win, evicted, hvars>>

SeqStep(p, I) ==
  \/ \E id \in I : GetSession_Read(p, id) /\ Begin(p) /\ SeqFrame
  \/ GetSession_Create(p) /\ UNCHANGED hist /\ SeqFrame
  \/ GetSession_Store(p) /\ End("get", loc[p].id, TRUE) /\ SeqFrame
  \/ GetSession_Touch(p) /\ End("get", loc[p].id, FALSE) /\ SeqFrame
  \/ \E id \in I :
       /\ GetAnilistClient_Read(p, id)
       /\ IF pc'[p] = "idle" THEN Whole(p, "getClient", id) ELSE Begin(p)
       /\ SeqFrame
  \/ GetAnilistClient_Put(p) /\ End("getClient", loc[p].id, TRUE) /\ SeqFrame
  \/ \E id \in I, t \in Tokens, v \in Viewers :
       Login_Build(p, id, t, v) /\ Begin(p) /\ SeqFrame
  \/ \E id \in I : Logout_Build(p, id) /\ Begin(p) /\ SeqFrame
  \/ Call_SetSession(p) /\ UNCHANGED hist /\ SeqFrame
  \/ Call_UpdateAnilistClient(p) /\ End(loc[p].op, loc[p].id, FALSE) /\ SeqFrame
  \/ \E id \in I : DeleteSession(p, id) /\ Whole(p, "delete", id) /\ SeqFrame

SeqCleanup ==
  /\ pc[SeqProc] = "idle"
  /\ Cleanup
  /\ evicted' = EvictedBy(sessions, sessions')
  /\ Whole(SeqProc, "sweep", "")
  /\ UNCHANGED <<authed, win, hvars>>

SeqTick == Tick /\ UNCHANGED <<authed, win, hist, evicted, hvars>>

SeqNext ==
  \/ SeqStep(SeqProc, Ids)
  \/ SeqCleanup
  \/ SeqTick

SeqSpec == Init /\ [][SeqNext]_vars

\* sequential use of one id that also calls SetSession directly
SeqSetSession(p, I) ==
  \E id \in I : \E s \in CallerSessions(id) :
    SetSession_Call(p, s) /\ Whole(p, "set", id) /\ SeqFrame

SeqSetNext ==
  \/ SeqStep(SeqProc, ConcIds)
  \/ SeqSetSession(SeqProc, ConcIds)
  \/ SeqCleanup
  \/ SeqTick

SeqSetSpec == Init /\ [][SeqSetNext]_vars

\* ================================================================ torrent client
\* The torrent-client request handlers. One request is handled at a time; the
\* collaborators (torrent daemon, metadata platform, provider extensions,
\* database) answer each call with any outcome their contract allows.

Hashes == {"h1", "h2"}
InstalledProviders == {"nyaa"}
Torrent(h, prov) == [InfoHash |-> h, Provider |-> prov]
\* the torrent lists a request body can carry: none, one, or two torrents,
\* from an installed provider or from one that is not installed
TorrentLists ==
  {<<>>, <<Torrent("h1", "nyaa")>>, <<Torrent("h2", "gone")>>,
   <<Torrent("h1", "nyaa"), Torrent("h2", "nyaa")>>,
   <<Torrent("h1", "nyaa"), Torrent("h2", "gone")>>}
Destinations == {NoPath, <<"a">>, <<"/", "a">>, <<"/", "A">>}
MediaIds == {0, 42}
Medias == {NilMedia} \cup {Media(i) : i \in MediaIds}

Called(op, ok) == [op |-> op, ok |-> ok]
Ops(log) == {log[i].op : i \in 1..Len(log)}
Succeeded(log, op) == \E i \in 1..Len(log) : log[i].op = op /\ log[i].ok
Times(log, op) == Cardinality({i \in 1..Len(log) : log[i].op = op})

\* ---- the torrent daemon behind TorrentClientRepository
\* Start: true when the client is (now) running
StartOutcomes == IF daemon.running THEN {TRUE} ELSE BOOLEAN
Started(ok) == IF ok THEN [daemon EXCEPT !.running = TRUE] ELSE daemon
\* every other call can fail, and succeeds only on a running client
CallOutcomes == IF daemon.running THEN BOOLEAN ELSE {FALSE}
\* AddMagnets, SmartSelect and DeselectAndDownload hand torrents to the client
Added(hs, ok) == IF ok THEN [daemon EXCEPT !.torrents = @ \cup hs] ELSE daemon
Removed(hs, ok) == IF ok THEN [daemon EXCEPT !.torrents = @ \ hs] ELSE daemon
TorrentExists(h) == daemon.running /\ h \in daemon.torrents

\* ---- the torrent_pre_matches table
\* the primary key gorm gives a created row
NextID(rows) ==
  IF rows = <<>> THEN 1
  ELSE 1 + (CHOOSE m \in {rows[i].ID : i \in 1..Len(rows)} :
              \A i \in 1..Len(rows) : rows[i].ID <= m)
\* SaveTorrentPreMatch: update the row of the normalized destination, or
\* create it
SaveTorrentPreMatch(rows, destination, mediaId, t) ==
  LET d == NormalizePath(destination) IN
    IF \E i \in 1..Len(rows) : rows[i].Destination = d
    THEN LET k == CHOOSE i \in 1..Len(rows) : rows[i].Destination = d
                                              /\ \A j \in 1..(i - 1) : rows[j].Destination # d
         IN [rows EXCEPT ![k].MediaId = mediaId]
    ELSE Append(rows, PreMatchRow(NextID(rows), d, mediaId, t))

\* ---- end of a request
Respond(r) == hpc' = "done" /\ resp' = r
Issue(op, ok) == calls' = Append(calls, Called(op, ok))

\* ---------------------------------------------------------------- HandleTorrentClientDownload
\* faulty variant: only the empty destination is refused
Download_Begin_NoAbsCheck(dest, ts, smart, desel, m) ==
  /\ hpc = "idle"
  /\ task.pc \in {"none", "done"}
  /\ req' = [NoReq EXCEPT !.kind = "download", !.destination = dest, !.torrents = ts,
                           !.smartSelect = smart, !.deselect = desel, !.media = m]
  /\ calls' = <<>>
  /\ task' = NoTask
  /\ IF dest = NoPath
       THEN Respond(RespondWithError)
       ELSE hpc' = "dl_start" /\ resp' = NoResp
  /\ UNCHANGED <<daemon, preMatches, collection>>

\* bind the body and validate the destination
Download_Begin(dest, ts, smart, desel, m) ==
  /\ hpc = "idle"
  /\ task.pc \in {"none", "done"}
  /\ req' = [NoReq EXCEPT !.kind = "download", !.destination = dest, !.torrents = ts,
                           !.smartSelect = smart, !.deselect = desel, !.media = m]
  /\ calls' = <<>>
  /\ task' = NoTask
  /\ IF dest = NoPath \/ ~IsAbs(dest)
       THEN Respond(RespondWithError)
       ELSE hpc' = "dl_start" /\ resp' = NoResp
  /\ UNCHANGED <<daemon, preMatches, collection>>

\* faulty variant: the request goes on when the client could not be started
Download_Start_IgnoresFailure ==
  /\ hpc = "dl_start"
  /\ \E ok \in StartOutcomes :
       /\ Issue("Start", ok)
       /\ daemon' = Started(ok)
       /\ hpc' = "dl_meta" /\ UNCHANGED resp
  /\ UNCHANGED <<req, preMatches, task, collection>>

\* try to start the torrent client if it is not running
Download_Start ==
  /\ hpc = "dl_start"
  /\ \E ok \in StartOutcomes :
       /\ Issue("Start", ok)
       /\ daemon' = Started(ok)
       /\ IF ok THEN hpc' = "dl_meta" /\ UNCHANGED resp ELSE Respond(RespondWithError)
  /\ UNCHANGED <<req, preMatches, task, collection>>

\* faulty variant: an error of the lookup is answered as an error
Download_Meta_FailsOnError ==
  /\ hpc = "dl_meta"
  /\ IF req.media.isNil
       THEN Respond(Panicked) /\ UNCHANGED <<calls, req>>
       ELSE \E ok \in BOOLEAN :
              /\ Issue("GetAnimeWithRelations", ok)
              /\ req' = [req EXCEPT !.completeAnime = IF ok THEN "remote" ELSE ""]
              /\ IF ok THEN hpc' = "dl_smart" /\ UNCHANGED resp
                       ELSE Respond(RespondWithError)
  /\ UNCHANGED <<daemon, preMatches, task, collection>>

\* fetch the complete media (b.Media is dereferenced for its ID); on an error
\* fall back to the media of the body
Download_Meta ==
  /\ hpc = "dl_meta"
  /\ IF req.media.isNil
       THEN Respond(Panicked) /\ UNCHANGED <<calls, req>>
       ELSE \E ok \in BOOLEAN :
              /\ Issue("GetAnimeWithRelations", ok)
              /\ req' = [req EXCEPT !.completeAnime = IF ok THEN "remote" ELSE "partial"]
              /\ hpc' = "dl_smart"
              /\ UNCHANGED resp
  /\ UNCHANGED <<daemon, preMatches, task, collection>>

\* if smart select is enabled: one torrent only, select the files
Download_SmartSelect ==
  /\ hpc = "dl_smart"
  /\ IF ~req.smartSelect
       THEN hpc' = "dl_branch" /\ UNCHANGED <<resp, calls, daemon>>
       ELSE IF Len(req.torrents) > 1
         THEN Respond(RespondWithError) /\ UNCHANGED <<calls, daemon>>
         ELSE IF Len(req.torrents) = 0
           THEN Respond(Panicked) /\ UNCHANGED <<calls, daemon>>
           ELSE \E ok \in CallOutcomes :
                  /\ Issue("SmartSelect", ok)
                  /\ daemon' = Added({req.torrents[1].InfoHash}, ok)
                  /\ IF ok THEN hpc' = "dl_branch" /\ UNCHANGED resp
                           ELSE Respond(RespondWithError)
  /\ UNCHANGED <<req, preMatches, task, collection>>

\* if deselect is enabled: deselect the given files and download the rest
Download_Deselect ==
  /\ hpc = "dl_branch"
  /\ req.deselect
  /\ IF Len(req.torrents) = 0
       THEN Respond(Panicked) /\ UNCHANGED <<calls, daemon>>
       ELSE \E ok \in CallOutcomes :
              /\ Issue("DeselectAndDownload", ok)
              /\ daemon' = Added({req.torrents[1].InfoHash}, ok)
              /\ IF ok THEN hpc' = "dl_prematch" /\ UNCHANGED resp
                       ELSE Respond(RespondWithError)
  /\ UNCHANGED <<req, preMatches, task, collection>>

\* otherwise: resolve the magnet of the next torrent of the list
Download_Resolve ==
  /\ hpc = "dl_branch"
  /\ ~req.deselect
  /\ Len(req.magnets) < Len(req.torrents)
  /\ LET t == req.torrents[Len(req.magnets) + 1] IN
       IF t.Provider \notin InstalledProviders
         THEN /\ Issue("GetAnimeProviderExtension", FALSE)
              /\ Respond(RespondWithError)
              /\ UNCHANGED req
         ELSE \E ok \in BOOLEAN :
                /\ Issue("GetTorrentMagnetLink", ok)
                /\ IF ok THEN /\ req' = [req EXCEPT !.magnets = Append(@, t.InfoHash)]
                              /\ UNCHANGED <<hpc, resp>>
                         ELSE Respond(RespondWithError) /\ UNCHANGED req
  /\ UNCHANGED <<daemon, preMatches, task, collection>>

\* ... and add the magnets to the client
Download_AddMagnets ==
  /\ hpc = "dl_branch"
  /\ ~req.deselect
  /\ Len(req.magnets) = Len(req.torrents)
  /\ \E ok \in CallOutcomes :
       /\ Issue("AddMagnets", ok)
       /\ daemon' = Added({req.magnets[i] : i \in 1..Len(req.magnets)}, ok)
       /\ IF ok THEN hpc' = "dl_prematch" /\ UNCHANGED resp
                ELSE Respond(RespondWithError)
  /\ UNCHANGED <<req, preMatches, task, collection>>

\* faulty variant: an error of the save is answered as an error
Download_PreMatch_FailsOnError ==
  /\ hpc = "dl_prematch"
  /\ IF ~req.media.isNil /\ req.media.ID > 0
       THEN \E ok \in BOOLEAN :
              /\ Issue("SaveTorrentPreMatch", ok)
              /\ preMatches' = IF ok THEN SaveTorrentPreMatch(preMatches, req.destination,
                                                              req.media.ID, now)
                               ELSE preMatches
              /\ IF ok THEN hpc' = "dl_respond" /\ UNCHANGED resp
                       ELSE Respond(RespondWithError)
       ELSE hpc' = "dl_respond" /\ UNCHANGED <<calls, preMatches, resp>>
  /\ UNCHANGED <<req, daemon, task, collection>>

\* store the pre-match of the destination; an error is only logged
Download_PreMatch ==
  /\ hpc = "dl_prematch"
  /\ IF ~req.media.isNil /\ req.media.ID > 0
       THEN \E ok \in BOOLEAN :
              /\ Issue("SaveTorrentPreMatch", ok)
              /\ preMatches' = IF ok THEN SaveTorrentPreMatch(preMatches, req.destination,
                                                              req.media.ID, now)
                               ELSE preMatches
       ELSE UNCHANGED <<calls, preMatches>>
  /\ hpc' = "dl_respond"
  /\ UNCHANGED <<req, resp, daemon, task, collection>>

\* start the collection goroutine and answer true
Download_Respond ==
  /\ hpc = "dl_respond"
  /\ task' = [pc |-> "start", media |-> req.media, log |-> <<>>]
  /\ Respond(RespondWithData({"true"}))
  /\ UNCHANGED <<req, calls, daemon, preMatches, collection>>

\* ---- the goroutine that adds the media to the collection
Logged(op, ok) == [task EXCEPT !.log = Append(@, Called(op, ok))]

Sync_GetAnimeCollection ==
  /\ task.pc = "start"
  /\ IF task.media.isNil
       THEN task' = [task EXCEPT !.pc = "done"]
       ELSE \E ok \in BOOLEAN :
              task' = [Logged("GetAnimeCollection", ok) EXCEPT
                         !.pc = IF ok /\ task.media.ID \notin collection
                                  THEN "add" ELSE "done"]
  /\ UNCHANGED <<hpc, req, resp, calls, daemon, preMatches, collection>>

\* an error of AddMediaToCollection is logged and the goroutine goes on
Sync_AddMediaToCollection ==
  /\ task.pc = "add"
  /\ \E ok \in BOOLEAN :
       /\ task' = [Logged("AddMediaToCollection", ok) EXCEPT !.pc = "refresh"]
       /\ collection' = IF ok THEN collection \cup {task.media.ID} ELSE collection
  /\ UNCHANGED <<hpc, req, resp, calls, daemon, preMatches>>

Sync_Refresh ==
  /\ task.pc = "refresh"
  /\ \E ok \in BOOLEAN :
       task' = [[Logged("RefreshAnimeCollection", ok) EXCEPT
                   !.log = Append(@, Called("SendEvent", TRUE))] EXCEPT !.pc = "done"]
  /\ UNCHANGED <<hpc, req, resp, calls, daemon, preMatches, collection>>

\* a panic inside the goroutine is recovered by its deferred handler
Sync_Panic ==
  /\ task.pc \in {"start", "add", "refresh"}
  /\ task' = [task EXCEPT !.pc = "done", !.log = Append(@, Called("panic", FALSE))]
  /\ UNCHANGED <<hpc, req, resp, calls, daemon, preMatches, collection>>

\* ---------------------------------------------------------------- HandleGetActiveTorrentList
\* GetActiveTorrents: the torrents the client holds
List_Begin ==
  /\ hpc = "idle"
  /\ req' = [NoReq EXCEPT !.kind = "list"]
  /\ \E ok \in CallOutcomes :
       /\ calls' = <<Called("GetActiveTorrents", ok)>>
       /\ IF ok THEN Respond(RespondWithData(daemon.torrents))
                ELSE hpc' = "ls_start" /\ resp' = NoResp
  /\ UNCHANGED <<daemon, preMatches, task, collection>>

\* on an error: try to start the torrent client
List_Start ==
  /\ hpc = "ls_start"
  /\ \E ok \in StartOutcomes :
       /\ Issue("Start", ok)
       /\ daemon' = Started(ok)
       /\ IF ok THEN hpc' = "ls_retry" /\ UNCHANGED resp ELSE Respond(RespondWithError)
  /\ UNCHANGED <<req, preMatches, task, collection>>

\* ... and get the list again; res is answered whatever err is
List_Retry ==
  /\ hpc = "ls_retry"
  /\ \E ok \in CallOutcomes :
       /\ Issue("GetActiveTorrents", ok)
       /\ Respond(RespondWithData(IF ok THEN daemon.torrents ELSE {}))
  /\ UNCHANGED <<req, daemon, preMatches, task, collection>>

\* ---------------------------------------------------------------- HandleTorrentClientGetFiles
\* the files of a torrent, as the client lists them
FilesOf(h) == {"file-of-" \o h}

\* bind the body and check the arguments; hash "" stands for a missing torrent
Files_Begin(h, prov) ==
  /\ hpc = "idle"
  /\ req' = [NoReq EXCEPT !.kind = "files", !.hash = h, !.provider = prov]
  /\ calls' = <<>>
  /\ IF h = "" THEN Respond(RespondWithError)
               ELSE hpc' = "gf_magnet" /\ resp' = NoResp
  /\ UNCHANGED <<daemon, preMatches, task, collection>>

\* get the provider extension and the magnet
Files_Magnet ==
  /\ hpc = "gf_magnet"
  /\ IF req.provider \notin InstalledProviders
       THEN Issue("GetAnimeProviderExtension", FALSE) /\ Respond(RespondWithError)
       ELSE \E ok \in BOOLEAN :
              /\ Issue("GetTorrentMagnetLink", ok)
              /\ IF ok THEN hpc' = "gf_exists" /\ UNCHANGED resp
                       ELSE Respond(RespondWithError)
  /\ UNCHANGED <<req, daemon, preMatches, task, collection>>

Files_Exists ==
  /\ hpc = "gf_exists"
  /\ req' = [req EXCEPT !.exists = TorrentExists(req.hash)]
  /\ Issue("TorrentExists", TRUE)
  /\ hpc' = IF TorrentExists(req.hash) THEN "gf_files" ELSE "gf_add"
  /\ UNCHANGED <<resp, daemon, preMatches, task, collection>>

\* the torrent does not exist: add it
Files_Add ==
  /\ hpc = "gf_add"
  /\ \E ok \in CallOutcomes :
       /\ Issue("AddMagnets", ok)
       /\ daemon' = Added({req.hash}, ok)
       /\ IF ok THEN hpc' = "gf_files" /\ UNCHANGED resp
                ELSE Respond(RespondWithError)
  /\ UNCHANGED <<req, preMatches, task, collection>>

\* get the files; on an error the handler returns at once
Files_GetFiles ==
  /\ hpc = "gf_files"
  /\ \E ok \in CallOutcomes :
       /\ Issue("GetFiles", ok)
       /\ IF ~ok THEN Respond(RespondWithError) /\ UNCHANGED req
          ELSE /\ req' = [req EXCEPT !.files = FilesOf(req.hash)]
               /\ IF req.exists THEN Respond(RespondWithData(FilesOf(req.hash)))
                                ELSE hpc' = "gf_remove" /\ UNCHANGED resp
  /\ UNCHANGED <<daemon, preMatches, task, collection>>

\* faulty variant: an error of the removal is answered as an error
Files_Remove_FailsOnError ==
  /\ hpc = "gf_remove"
  /\ \E ok \in CallOutcomes :
       /\ Issue("RemoveTorrents", ok)
       /\ daemon' = Removed({req.hash}, ok)
       /\ Respond(IF ok THEN RespondWithData(req.files) ELSE RespondWithError)
  /\ UNCHANGED <<req, preMatches, task, collection>>

\* the torrent was added by this request: remove it, ignoring the error
Files_Remove ==
  /\ hpc = "gf_remove"
  /\ \E ok \in CallOutcomes :
       /\ Issue("RemoveTorrents", ok)
       /\ daemon' = Removed({req.hash}, ok)
  /\ Respond(RespondWithData(req.files))
  /\ UNCHANGED <<req, preMatches, task, collection>>

\* ---------------------------------------------------------------- the server
\* the response is written and the handler returns: the next request can come
Handler_Return ==
  /\ hpc = "done"
  /\ hpc' = "idle"
  /\ req' = NoReq
  /\ resp' = NoResp
  /\ calls' = <<>>
  /\ UNCHANGED <<daemon, preMatches, task, collection>>

\* ---------------------------------------------------------------- the environment
\* the torrent client process exits; it keeps its torrents for the next run
Daemon_Exit ==
  /\ daemon.running
  /\ daemon' = [daemon EXCEPT !.running = FALSE]
  /\ UNCHANGED <<hpc, req, resp, calls, preMatches, task, collection>>

\* ---------------------------------------------------------------- requests, one at a time
TFrame == UNCHANGED <<svars, now, pvars, avars, xvars>>
Arrive == before' = daemon /\ TFrame
Go == UNCHANGED before /\ TFrame

TorrentNext ==
  \/ \E d \in Destinations, ts \in TorrentLists, ss \in BOOLEAN, ds \in BOOLEAN,
        m \in Medias : Download_Begin(d, ts, ss, ds, m) /\ Arrive
  \/ Download_Start /\ Go
  \/ Download_Meta /\ Go
  \/ Download_SmartSelect /\ Go
  \/ Download_Deselect /\ Go
  \/ Download_Resolve /\ Go
  \/ Download_AddMagnets /\ Go
  \/ Download_PreMatch /\ Go
  \/ Download_Respond /\ Go
  \/ Sync_GetAnimeCollection /\ Go
  \/ Sync_AddMediaToCollection /\ Go
  \/ Sync_Refresh /\ Go
  \/ Sync_Panic /\ Go
  \/ List_Begin /\ Arrive
  \/ List_Start /\ Go
  \/ List_Retry /\ Go
  \/ \E h \in Hashes \cup {""}, prov \in {"nyaa", "gone"} : Files_Begin(h, prov) /\ Arrive
  \/ Files_Magnet /\ Go
  \/ Files_Exists /\ Go
  \/ Files_Add /\ Go
  \/ Files_GetFiles /\ Go
  \/ Files_Remove /\ Go
  \/ Handler_Return /\ before' = StoppedDaemon /\ TFrame
  \/ Daemon_Exit /\ Go

TorrentSpec == Init /\ [][TorrentNext]_vars

\* ================================================================ pre-match store
\* The Database methods on torrent_pre_matches. Every query is one step; a
\* query can fail with a database error (fault).

\* the media ids callers save
SaveIds == {42, 99}

\* the file paths the scanner asks about
FilePaths == {<<"/", "a", "/", "f">>, <<"/", "a", "b", "/", "f">>,
              <<"/", "A", "/", "b", "/", "f">>, <<"/", "b", "/", "f">>}

\* strings.HasPrefix
HasPrefix(str, prefix) ==
  Len(prefix) <= Len(str) /\ SubSeq(str, 1, Len(prefix)) = prefix

RowsOf(rows, d) == {i \in 1..Len(rows) : rows[i].Destination = d}
\* Where("destination = ?").First: the row with the smallest primary key
FirstRow(rows, d) ==
  IF RowsOf(rows, d) = {} THEN NoRow
  ELSE rows[CHOOSE i \in RowsOf(rows, d) : \A j \in RowsOf(rows, d) : rows[i].ID <= rows[j].ID]

\* faulty variant: the table has no unique index on destination
Create_NoUniqueIndex(rows, d, mediaId, t) ==
  [err |-> FALSE, rows |-> Append(rows, PreMatchRow(NextID(rows), d, mediaId, t))]

\* Create: insert a row; the unique index on destination refuses a second one
Create(rows, d, mediaId, t) ==
  IF RowsOf(rows, d) # {}
    THEN [err |-> TRUE, rows |-> rows]
    ELSE [err |-> FALSE, rows |-> Append(rows, PreMatchRow(NextID(rows), d, mediaId, t))]

\* Save of a row that has a primary key: update the row of that key
Update(rows, row) ==
  [i \in 1..Len(rows) |-> IF rows[i].ID = row.ID THEN row ELSE rows[i]]

\* SaveTorrentPreMatch, first query: look the normalized destination up
Save_First(p, destination, mediaId) ==
  /\ sloc[p].pc = "idle"
  /\ \E fault \in BOOLEAN :
       LET d == NormalizePath(destination) IN
         sloc' = [sloc EXCEPT ![p] =
                    [NoSave EXCEPT !.op = "save", !.pc = "write", !.dest = d, !.id = mediaId,
                                   !.existing = IF fault THEN NoRow ELSE FirstRow(preMatches, d),
                                   !.fresh = RowsOf(preMatches, d) = {},
                                   !.fault = fault]]
  /\ UNCHANGED preMatches

\* faulty variant: the row found is written back with the media id it had
Save_Write_KeepsId(p) ==
  /\ sloc[p].pc = "write"
  /\ \E fault \in BOOLEAN :
       IF fault
         THEN /\ sloc' = [sloc EXCEPT ![p].pc = "idle", ![p].err = TRUE, ![p].fault = TRUE]
              /\ UNCHANGED preMatches
         ELSE IF sloc[p].existing # NoRow
           THEN /\ preMatches' = Update(preMatches, sloc[p].existing)
                /\ sloc' = [sloc EXCEPT ![p].pc = "idle", ![p].err = FALSE]
           ELSE LET c == Create(preMatches, sloc[p].dest, sloc[p].id, now) IN
                  /\ preMatches' = c.rows
                  /\ sloc' = [sloc EXCEPT ![p].pc = "idle", ![p].err = c.err]

\* SaveTorrentPreMatch, second query: update the row found, or create one
Save_Write(p) ==
  /\ sloc[p].pc = "write"
  /\ \E fault \in BOOLEAN :
       IF fault
         THEN /\ sloc' = [sloc EXCEPT ![p].pc = "idle", ![p].err = TRUE, ![p].fault = TRUE]
              /\ UNCHANGED preMatches
         ELSE IF sloc[p].existing # NoRow
           THEN /\ preMatches' = Update(preMatches, [sloc[p].existing EXCEPT
                                                       !.MediaId = sloc[p].id])
                /\ sloc' = [sloc EXCEPT ![p].pc = "idle", ![p].err = FALSE]
           ELSE LET c == Create(preMatches, sloc[p].dest, sloc[p].id, now) IN
                  /\ preMatches' = c.rows
                  /\ sloc' = [sloc EXCEPT ![p].pc = "idle", ![p].err = c.err]

\* the rows whose destination is a prefix of the path
MatchingRows(rows, path) ==
  {i \in 1..Len(rows) : HasPrefix(path, NormalizePath(rows[i].Destination))}

\* faulty variant: the file path is compared as it was given
GetTorrentPreMatchForFilePath_RawPath(p, filePath) ==
  /\ sloc[p].pc = "idle"
  /\ \E fault \in BOOLEAN :
       LET hits == MatchingRows(preMatches, filePath)
       IN sloc' = [sloc EXCEPT ![p] =
                     IF fault \/ hits = {}
                       THEN [NoSave EXCEPT !.op = "getForPath", !.dest = NormalizePath(filePath),
                                           !.fault = fault]
                       ELSE [NoSave EXCEPT !.op = "getForPath", !.dest = NormalizePath(filePath),
                               !.found = TRUE,
                               !.id = preMatches[CHOOSE i \in hits :
                                                   \A j \in hits : i <= j].MediaId]]
  /\ UNCHANGED preMatches

\* GetTorrentPreMatchForFilePath: the first row whose destination is a prefix
GetTorrentPreMatchForFilePath(p, filePath) ==
  /\ sloc[p].pc = "idle"
  /\ \E fault \in BOOLEAN :
       LET path == NormalizePath(filePath)
           hits == MatchingRows(preMatches, path)
       IN sloc' = [sloc EXCEPT ![p] =
                     IF fault \/ hits = {}
                       THEN [NoSave EXCEPT !.op = "getForPath", !.dest = path, !.fault = fault]
                       ELSE [NoSave EXCEPT !.op = "getForPath", !.dest = path, !.found = TRUE,
                               !.id = preMatches[CHOOSE i \in hits :
                                                   \A j \in hits : i <= j].MediaId]]
  /\ UNCHANGED preMatches

\* ---------------------------------------------------------------- one caller
PFrame == UNCHANGED <<svars, now, hpc, req, resp, calls, daemon, task, collection, before, avars, xvars>>

PreSeqNext ==
  \/ \E d \in PreDests, m \in SaveIds :
       Save_First(SeqProc, d, m) /\ UNCHANGED lastSaved /\ PFrame
  \/ /\ Save_Write(SeqProc)
     /\ lastSaved' = (IF sloc'[SeqProc].err THEN lastSaved
                      ELSE [lastSaved EXCEPT ![sloc[SeqProc].dest] = sloc[SeqProc].id])
     /\ PFrame
  \/ \E f \in FilePaths :
       GetTorrentPreMatchForFilePath(SeqProc, f) /\ UNCHANGED lastSaved /\ PFrame

PreSeqSpec == Init /\ [][PreSeqNext]_vars

\* ---------------------------------------------------------------- concurrent callers
\* Request goroutines save at the same time; the two queries of a save are
\* separate statements, so other queries run between them.
ConcDests == {<<"/", "a">>, <<"/", "A">>, <<"/", "b">>}

PreConcNext ==
  \/ \E p \in Procs, d \in ConcDests, m \in SaveIds :
       Save_First(p, d, m) /\ UNCHANGED lastSaved /\ PFrame
  \/ \E p \in Procs :
       /\ Save_Write(p)
       /\ lastSaved' = (IF sloc'[p].err THEN lastSaved
                        ELSE [lastSaved EXCEPT ![sloc[p].dest] = sloc[p].id])
       /\ PFrame

PreConcSpec == Init /\ [][PreConcNext]_vars

\* ================================================================ status query
\* HandleGetMediaDownloadingStatus: the active torrents of the client matched
\* against the pre-match table. The loop over the torrents is one step a
\* torrent.

\* what the client reports of a torrent
TorrentInfo(path, status, progress) ==
  [ContentPath |-> path, Status |-> status, Progress |-> progress]
ContentPaths == {<<"/", "a", "/", "b", "/", "x">>, <<"/", "A", "/", "y">>, <<"/", "c">>}
TorrentInfos ==
  {TorrentInfo(path, "downloading", 50) : path \in ContentPaths}
    \cup {TorrentInfo(path, "seeding", 100) : path \in ContentPaths}
\* GetActiveTorrents: one entry a torrent the client holds, in the client's order
ActiveLists(n) == {l \in UNION {[1..k -> TorrentInfos] : k \in 0..2} : Len(l) = n}

\* the destinations and ids earlier download requests have pre-matched
StatusDests == {<<"/", "a">>, <<"/", "a", "/", "b">>}

\* a JSON array, as the set of its (position, element) pairs
Listed(seq) == {<<i, seq[i]>> : i \in 1..Len(seq)}

MediaDownloadStatus(mediaId, torrent) ==
  [MediaId |-> mediaId, Status |-> torrent.Status, Progress |-> torrent.Progress]

\* destToMediaId: the last row of a normalized destination gives its media id
DestToMediaId(rows) ==
  {[dest |-> NormalizePath(rows[i].Destination), id |-> rows[i].MediaId] :
     i \in {k \in 1..Len(rows) :
              \A j \in (k + 1)..Len(rows) :
                NormalizePath(rows[j].Destination) # NormalizePath(rows[k].Destination)}}

\* len(contentPath) >= len(destPath) && contentPath[:len(destPath)] == destPath
Matches(torrent, entry) == HasPrefix(NormalizePath(torrent.ContentPath), entry.dest)

\* addedMediaIds: set exactly when a record is appended
AddedMediaIds(result) == {result[i].MediaId : i \in 1..Len(result)}

\* get the active torrents; on an error answer the empty result
Status_Begin ==
  /\ hpc = "idle"
  /\ \E ok \in CallOutcomes, list \in ActiveLists(Cardinality(daemon.torrents)) :
       /\ calls' = <<Called("GetActiveTorrents", ok)>>
       /\ IF ok
            THEN /\ req' = [NoReq EXCEPT !.kind = "status", !.torrents = list]
                 /\ hpc' = "st_prematches" /\ resp' = NoResp
            ELSE /\ req' = [NoReq EXCEPT !.kind = "status"]
                 /\ Respond(RespondWithData(Listed(<<>>)))
  /\ UNCHANGED <<daemon, preMatches, task, collection>>

\* faulty variant: a failure to read the table is answered as an error
Status_PreMatches_FailsOnError ==
  /\ hpc = "st_prematches"
  /\ \E ok \in BOOLEAN :
       /\ Issue("GetAllTorrentPreMatches", ok)
       /\ IF ok
            THEN /\ req' = [req EXCEPT !.destToMediaId = DestToMediaId(preMatches), !.idx = 1]
                 /\ hpc' = "st_match" /\ UNCHANGED resp
            ELSE /\ Respond(RespondWithError)
                 /\ UNCHANGED req
  /\ UNCHANGED <<daemon, preMatches, task, collection>>

\* get all pre-matches; on an error answer the empty result
Status_PreMatches ==
  /\ hpc = "st_prematches"
  /\ \E ok \in BOOLEAN :
       /\ Issue("GetAllTorrentPreMatches", ok)
       /\ IF ok
            THEN /\ req' = [req EXCEPT !.destToMediaId = DestToMediaId(preMatches), !.idx = 1]
                 /\ hpc' = "st_match" /\ UNCHANGED resp
            ELSE /\ Respond(RespondWithData(Listed(<<>>)))
                 /\ UNCHANGED req
  /\ UNCHANGED <<daemon, preMatches, task, collection>>

\* one torrent of the list: range over the map, which Go iterates in an order
\* of its own choosing, up to the first destination that matches
Status_Match ==
  /\ hpc = "st_match"
  /\ req.idx <= Len(req.torrents)
  /\ LET torrent == req.torrents[req.idx]
         hits == {e \in req.destToMediaId : Matches(torrent, e)}
     IN IF hits = {}
          THEN req' = [req EXCEPT !.idx = @ + 1]
          ELSE \E e \in hits :
                 req' = [req EXCEPT
                           !.idx = @ + 1,
                           !.result = IF e.id \in AddedMediaIds(req.result) THEN @
                                      ELSE Append(@, MediaDownloadStatus(e.id, torrent))]
  /\ UNCHANGED <<hpc, resp, calls, daemon, preMatches, task, collection>>

\* the list is exhausted: answer the result
Status_Respond ==
  /\ hpc = "st_match"
  /\ req.idx > Len(req.torrents)
  /\ Respond(RespondWithData(Listed(req.result)))
  /\ UNCHANGED <<req, calls, daemon, preMatches, task, collection>>

\* ---------------------------------------------------------------- the environment of the query
\* a torrent is handed to the running client
Daemon_Add(h) ==
  /\ hpc = "idle"
  /\ daemon.running
  /\ h \notin daemon.torrents
  /\ daemon' = Added({h}, TRUE)
  /\ UNCHANGED <<hpc, req, resp, calls, preMatches, task, collection>>

\* a download request has pre-matched its destination
PreMatch_Saved(d, m) ==
  /\ hpc = "idle"
  /\ preMatches' = SaveTorrentPreMatch(preMatches, d, m, now)
  /\ preMatches' # preMatches
  /\ UNCHANGED <<hpc, req, resp, calls, daemon, task, collection>>

StatusNext ==
  \/ Status_Begin /\ Arrive
  \/ Status_PreMatches /\ Go
  \/ Status_Match /\ Go
  \/ Status_Respond /\ Go
  \/ List_Begin /\ Arrive
  \/ List_Start /\ Go
  \/ List_Retry /\ Go
  \/ Handler_Return /\ before' = StoppedDaemon /\ TFrame
  \/ Daemon_Exit /\ Go
  \/ \E h \in Hashes : Daemon_Add(h) /\ Go
  \/ \E d \in StatusDests, m \in SaveIds : PreMatch_Saved(d, m) /\ Go

StatusSpec == Init /\ [][StatusNext]_vars

\* ================================================================ App: progress updates
\* App.UpdateEntryProgressForSession and App.GetAnilistClientForSession, called
\* by one goroutine (SeqProc). The calls into the session store are the
\* Store's own steps; call.pc is the position in the App method around them.

\* the arguments callers pass
CallIds == ConcIds \cup {""}
Progresses == 0..3
Totals == {NilInt, IntPtr(0), IntPtr(2)}

\* an update handed to a collaborator
ViaPlatform(mediaID, progress, totalEpisodes) ==
  [via |-> "platform", client |-> app.AnilistClientRef, mediaID |-> mediaID,
   progress |-> progress, status |-> "", totalEpisodes |-> totalEpisodes]
ViaClient(client, mediaID, progress, status) ==
  [via |-> "session", client |-> client, mediaID |-> mediaID,
   progress |-> progress, status |-> status, totalEpisodes |-> NilInt]

\* faulty variant: the progress is sent as it came
ProgressUpdate_NoClamp(progress, totalEpisodes) ==
  LET realTotalCount == IF ~totalEpisodes.isNil /\ totalEpisodes.val > 0
                          THEN totalEpisodes.val ELSE 0
  IN [status |-> IF realTotalCount > 0 /\ progress >= realTotalCount
                   THEN "COMPLETED" ELSE "CURRENT",
      progress |-> progress]

\* lines 85-96: the status and the progress that are sent
ProgressUpdate(progress, totalEpisodes) ==
  LET realTotalCount == IF ~totalEpisodes.isNil /\ totalEpisodes.val > 0
                          THEN totalEpisodes.val ELSE 0
  IN [status |-> IF realTotalCount > 0 /\ progress >= realTotalCount
                   THEN "COMPLETED" ELSE "CURRENT",
      progress |-> IF realTotalCount > 0 /\ progress > realTotalCount
                     THEN realTotalCount ELSE progress]

\* lines 66-70: without a session id or a session store, the global platform
Update_Begin(id, mediaID, progress, totalEpisodes) ==
  /\ call.pc = "idle"
  /\ pc[SeqProc] = "idle"
  /\ call' = IF id = "" \/ ~app.SessionStore
               THEN [NoCall EXCEPT !.op = "update", !.pc = "done", !.sessionID = id,
                                   !.mediaID = mediaID, !.progress = progress,
                                   !.totalEpisodes = totalEpisodes,
                                   !.sent = <<ViaPlatform(mediaID, progress, totalEpisodes)>>]
               ELSE [NoCall EXCEPT !.op = "update", !.pc = "up_session", !.sessionID = id,
                                   !.mediaID = mediaID, !.progress = progress,
                                   !.totalEpisodes = totalEpisodes]
  /\ UNCHANGED <<app, sessions, clients, now, pc, loc>>

\* line 73: a.SessionStore.GetSession(sessionID) is entered
Update_GetSession ==
  /\ call.pc = "up_session"
  /\ GetSession_Read(SeqProc, call.sessionID)
  /\ call' = [call EXCEPT !.pc = "up_check"]
  /\ UNCHANGED app

\* faulty variant: any session that exists is taken for an authenticated one
Update_Check_AnySession ==
  /\ call.pc = "up_check"
  /\ pc[SeqProc] = "idle"
  /\ LET sess == loc[SeqProc].sess IN
       call' = IF sess.oid = 0
                 THEN [call EXCEPT !.pc = "done",
                         !.sent = <<ViaPlatform(call.mediaID, call.progress,
                                                call.totalEpisodes)>>]
                 ELSE [call EXCEPT !.pc = "up_client"]
  /\ UNCHANGED <<app, sessions, clients, now, pc, loc>>

\* lines 74-77: GetSession has returned; a simulated or unauthenticated
\* session falls back to the global platform
Update_Check ==
  /\ call.pc = "up_check"
  /\ pc[SeqProc] = "idle"
  /\ LET sess == loc[SeqProc].sess IN
       call' = IF sess.oid = 0 \/ sess.IsSimulated \/ sess.Token = ""
                 THEN [call EXCEPT !.pc = "done",
                         !.sent = <<ViaPlatform(call.mediaID, call.progress,
                                                call.totalEpisodes)>>]
                 ELSE [call EXCEPT !.pc = "up_client"]
  /\ UNCHANGED <<app, sessions, clients, now, pc, loc>>

\* line 80: a.SessionStore.GetAnilistClient(sessionID) is entered
Update_GetClient ==
  /\ call.pc = "up_client"
  /\ GetAnilistClient_Read(SeqProc, call.sessionID)
  /\ call' = [call EXCEPT !.pc = "up_send"]
  /\ UNCHANGED app

\* lines 81-99: GetAnilistClient has returned; without a client the global
\* platform, else the update through the client
Update_Send ==
  /\ call.pc = "up_send"
  /\ pc[SeqProc] = "idle"
  /\ LET client == loc[SeqProc].cli
         u == ProgressUpdate(call.progress, call.totalEpisodes)
     IN \E ok \in BOOLEAN :
          call' = IF client.ref = 0
                    THEN [call EXCEPT !.pc = "done",
                            !.sent = <<ViaPlatform(call.mediaID, call.progress,
                                                   call.totalEpisodes)>>]
                    ELSE [call EXCEPT !.pc = "done", !.client = client, !.err = ~ok,
                            !.sent = <<ViaClient(client, call.mediaID, u.progress, u.status)>>]
  /\ UNCHANGED <<app, sessions, clients, now, pc, loc>>

\* lines 56-59: GetAnilistClientForSession without a store or an id
Resolve_Begin(id) ==
  /\ call.pc = "idle"
  /\ pc[SeqProc] = "idle"
  /\ call' = IF ~app.SessionStore \/ id = ""
               THEN [NoCall EXCEPT !.op = "resolve", !.pc = "done", !.sessionID = id,
                                   !.client = app.AnilistClientRef]
               ELSE [NoCall EXCEPT !.op = "resolve", !.pc = "rs_client", !.sessionID = id]
  /\ UNCHANGED <<app, sessions, clients, now, pc, loc>>

\* line 60: a.SessionStore.GetAnilistClient(sessionID) is entered
Resolve_GetClient ==
  /\ call.pc = "rs_client"
  /\ GetAnilistClient_Read(SeqProc, call.sessionID)
  /\ call' = [call EXCEPT !.pc = "rs_return"]
  /\ UNCHANGED app

\* line 60: ... and its result is returned
Resolve_Return ==
  /\ call.pc = "rs_return"
  /\ pc[SeqProc] = "idle"
  /\ call' = [call EXCEPT !.pc = "done", !.client = loc[SeqProc].cli]
  /\ UNCHANGED <<app, sessions, clients, now, pc, loc>>

\* the caller has its result
Call_Return ==
  /\ call.pc = "done"
  /\ call' = NoCall
  /\ UNCHANGED <<app, sessions, clients, now, pc, loc>>

\* ---------------------------------------------------------------- one caller of the App
AFrame == UNCHANGED <<authed, win, hist, evicted, tvars, pvars, held, xvars>>
\* a step of the Store inside the call in progress
InStore == UNCHANGED <<app, call>> /\ AFrame
\* a call of the Store made between the calls of the App
Outside == call.pc = "idle" /\ UNCHANGED <<app, call>> /\ AFrame

UpdateNext ==
  \/ \E id \in CallIds, pr \in Progresses, tot \in Totals :
       Update_Begin(id, 42, pr, tot) /\ AFrame
  \/ Update_GetSession /\ AFrame
  \/ Update_Check /\ AFrame
  \/ Update_GetClient /\ AFrame
  \/ Update_Send /\ AFrame
  \/ \E id \in CallIds : Resolve_Begin(id) /\ AFrame
  \/ Resolve_GetClient /\ AFrame
  \/ Resolve_Return /\ AFrame
  \/ Call_Return /\ AFrame
  \/ app.SessionStore /\ GetSession_Create(SeqProc) /\ InStore
  \/ app.SessionStore /\ GetSession_Store(SeqProc) /\ InStore
  \/ app.SessionStore /\ GetSession_Touch(SeqProc) /\ InStore
  \/ app.SessionStore /\ GetAnilistClient_Put(SeqProc) /\ InStore
  \/ \E id \in ConcIds, t \in Tokens, v \in Viewers :
       app.SessionStore /\ Login_Build(SeqProc, id, t, v) /\ Outside
  \/ \E id \in ConcIds : app.SessionStore /\ Logout_Build(SeqProc, id) /\ Outside
  \/ \E id \in ConcIds : app.SessionStore /\ DeleteSession(SeqProc, id) /\ Outside
  \/ app.SessionStore /\ Call_SetSession(SeqProc) /\ InStore
  \/ app.SessionStore /\ Call_UpdateAnilistClient(SeqProc) /\ InStore

UpdateSpec == AnyAppInit /\ [][UpdateNext]_vars

\* ================================================================ HandleLogin
\* The login handler of one request goroutine (SeqProc). The session
\* middleware and the other handlers of the same browser reach the store
\* through GetSession and GetAnilistClient between the logins.

\* what AniList answers to GetViewer: an error, or a viewer, whose name can be empty
ViewerAnswers == Viewers \cup {Viewer("")}

\* App.UpdateAnilistClientToken: a new client behind AnilistClientRef
UpdateAnilistClientToken(token) ==
  [app EXCEPT !.AnilistClientRef =
     DefaultClient(IF app.AnilistClientRef.ref = 0 - 1 THEN 2 ELSE 1, token)]

LoginError == [call EXCEPT !.pc = "done", !.err = TRUE]

\* lines 388-398: bind the body, take the session id from the context
Login_Begin(id, token, bound) ==
  /\ call.pc = "idle"
  /\ pc[SeqProc] = "idle"
  /\ call' = IF ~bound \/ id = ""
               THEN [NoCall EXCEPT !.op = "login", !.pc = "done", !.err = TRUE,
                                   !.sessionID = id, !.token = IF bound THEN token ELSE ""]
               ELSE [NoCall EXCEPT !.op = "login", !.pc = "lg_viewer", !.sessionID = id,
                                   !.token = token]
  /\ UNCHANGED <<app, sessions, clients, now, pc, loc>>

\* faulty variant: a viewer without a name is accepted
Login_GetViewer_AcceptsEmptyName ==
  /\ call.pc = "lg_viewer"
  /\ \/ call' = [LoginError EXCEPT !.log = Append(@, Called("GetViewer", FALSE))]
     \/ \E v \in ViewerAnswers :
          call' = [call EXCEPT !.pc = "lg_login", !.viewer = v,
                               !.log = Append(@, Called("GetViewer", TRUE))]
  /\ UNCHANGED <<app, sessions, clients, now, pc, loc>>

\* lines 401-412: verify the token with a temporary client
Login_GetViewer ==
  /\ call.pc = "lg_viewer"
  /\ \/ call' = [LoginError EXCEPT !.log = Append(@, Called("GetViewer", FALSE))]
     \/ \E v \in ViewerAnswers :
          call' = IF Len(v.Name) = 0
                    THEN [LoginError EXCEPT !.viewer = v,
                                            !.log = Append(@, Called("GetViewer", TRUE))]
                    ELSE [call EXCEPT !.pc = "lg_login", !.viewer = v,
                                      !.log = Append(@, Called("GetViewer", TRUE))]
  /\ UNCHANGED <<app, sessions, clients, now, pc, loc>>

\* line 415: h.App.SessionStore.Login(sessionID, b.Token, viewer) is entered
Login_Store ==
  /\ call.pc = "lg_login"
  /\ Login_Build(SeqProc, call.sessionID, call.token, call.viewer)
  /\ call' = [call EXCEPT !.pc = "lg_global"]
  /\ UNCHANGED app

\* lines 420-466: Login has returned; UpdateAnilistClientToken, the account
\* row, UpdatePlatform with the AniList platform, and the answer
Login_Global ==
  /\ call.pc = "lg_global"
  /\ pc[SeqProc] = "idle"
  /\ \E saved \in BOOLEAN :
       call' = [call EXCEPT !.pc = "done", !.log = Append(@, Called("UpsertAccount", saved))]
  /\ app' = [UpdateAnilistClientToken(call.token) EXCEPT !.Platform = "anilist"]
  /\ UNCHANGED <<sessions, clients, now, pc, loc>>

\* ---------------------------------------------------------------- logins, one at a time
\* what the store and the App hold for the session of the request
Holding(id) ==
  [session |-> IF id = "" THEN NoSession ELSE sessions[id],
   client |-> IF id = "" THEN NoClient ELSE clients[id],
   default |-> app.AnilistClientRef]

LFrame == UNCHANGED <<authed, win, hist, evicted, tvars, pvars, xvars>>

LoginNext ==
  \/ \E id \in CallIds, t \in Tokens, bound \in BOOLEAN :
       Login_Begin(id, t, bound) /\ held' = Holding(id) /\ LFrame
  \/ Login_GetViewer /\ UNCHANGED held /\ LFrame
  \/ Login_Store /\ UNCHANGED held /\ LFrame
  \/ Login_Global /\ UNCHANGED held /\ LFrame
  \/ Call_SetSession(SeqProc) /\ UNCHANGED <<app, call, held>> /\ LFrame
  \/ Call_UpdateAnilistClient(SeqProc) /\ UNCHANGED <<app, call, held>> /\ LFrame
  \/ Call_Return /\ held' = NoHeld /\ LFrame
  \/ \E id \in ConcIds :
       call.pc = "idle" /\ GetSession_Read(SeqProc, id) /\ UNCHANGED <<app, call, held>> /\ LFrame
  \/ GetSession_Create(SeqProc) /\ UNCHANGED <<app, call, held>> /\ LFrame
  \/ GetSession_Store(SeqProc) /\ UNCHANGED <<app, call, held>> /\ LFrame
  \/ GetSession_Touch(SeqProc) /\ UNCHANGED <<app, call, held>> /\ LFrame
  \/ \E id \in ConcIds :
       call.pc = "idle" /\ GetAnilistClient_Read(SeqProc, id)
         /\ UNCHANGED <<app, call, held>> /\ LFrame
  \/ GetAnilistClient_Put(SeqProc) /\ UNCHANGED <<app, call, held>> /\ LFrame

LoginSpec == Init /\ [][LoginNext]_vars

\* ================================================================ smart select
\* TorrentClientRepository.SmartSelect, the file selection the download handler
\* asks for: one step an episode of the list, then the rest is deselected.

\* a file of the torrent: the episode number its name parses to (0 for none)
\* and its size
TorrentFile(ep, size) == [Episode |-> ep, Size |-> size]
TorrentFiles == {TorrentFile(ep, size) : ep \in 0..3, size \in 1..2}
MaxFiles == 3
FileLists == UNION {[1..k -> TorrentFiles] : k \in 0..MaxFiles}
\* b.SmartSelect.MissingEpisodeNumbers
EpisodeLists == {<<>>, <<1>>, <<1, 2>>, <<2, 1>>, <<1, 4>>, <<2, 2>>}

\* the files whose name parses to the episode
FilesOfEpisode(files, ep) == {i \in 1..Len(files) : files[i].Episode = ep}

\* faulty variant: the first file of the episode is taken
BestFile_First(files, matches) ==
  CHOOSE i \in matches : \A j \in matches : i <= j

\* the best match: the largest file, the earlier of two of one size
BestFile(files, matches) ==
  CHOOSE i \in matches :
    \A j \in matches : \/ files[j].Size < files[i].Size
                       \/ (files[j].Size = files[i].Size /\ i <= j)

Smart_Begin(files, episodes) ==
  /\ selection.pc = "idle"
  /\ selection' = [NoSelection EXCEPT !.pc = "select", !.files = files,
                                      !.episodes = episodes, !.idx = 1]

\* one desired episode: mark its best file, or nothing when no file matches
Smart_Episode ==
  /\ selection.pc = "select"
  /\ selection.idx <= Len(selection.episodes)
  /\ LET matches == FilesOfEpisode(selection.files, selection.episodes[selection.idx])
     IN selection' = [selection EXCEPT
                        !.idx = @ + 1,
                        !.selected = IF matches = {} THEN @
                                     ELSE @ \cup {BestFile(selection.files, matches)}]

\* every file not marked is deselected
Smart_Deselect ==
  /\ selection.pc = "select"
  /\ selection.idx > Len(selection.episodes)
  /\ selection' = [selection EXCEPT
                     !.pc = "done",
                     !.deselected = (1..Len(selection.files)) \ selection.selected]

Smart_Return ==
  /\ selection.pc = "done"
  /\ selection' = NoSelection

XFrame == UNCHANGED <<svars, now, tvars, pvars, avars, lastStatus>>

SmartNext ==
  \/ \E files \in FileLists, episodes \in EpisodeLists : Smart_Begin(files, episodes) /\ XFrame
  \/ Smart_Episode /\ XFrame
  \/ Smart_Deselect /\ XFrame
  \/ Smart_Return /\ XFrame

SmartSpec == Init /\ [][SmartNext]_vars

\* ================================================================ pre-match store: cleanup by age
\* string(rune(days)): the character with code point days, which is a decimal
\* digit only for 48..57 ("0".."9"); any other character is no number
RuneString(days) ==
  IF days \in 48..57 THEN [number |-> TRUE, val |-> days - 48]
                     ELSE [number |-> FALSE, val |-> 0]

\* created_at < datetime('now', '-N days'): datetime is NULL for a modifier
\* that is not a number, and a comparison with NULL selects no row
OlderThan(row, modifier, t) == modifier.number /\ row.CreatedAt < t - modifier.val

RECURSIVE Remaining(_, _, _)
Remaining(rows, modifier, t) ==
  IF rows = <<>> THEN <<>>
  ELSE IF OlderThan(Head(rows), modifier, t) THEN Remaining(Tail(rows), modifier, t)
       ELSE <<Head(rows)>> \o Remaining(Tail(rows), modifier, t)

\* the days callers pass
CleanupDays == {1, Retention, 49}

\* CleanupOldTorrentPreMatches: one DELETE statement
CleanupOldTorrentPreMatches(p, days) ==
  /\ sloc[p].pc = "idle"
  /\ \E fault \in BOOLEAN :
       /\ sloc' = [sloc EXCEPT ![p] = [NoSave EXCEPT !.op = "cleanup", !.id = days,
                                                     !.err = fault, !.fault = fault]]
       /\ preMatches' = IF fault THEN preMatches
                        ELSE Remaining(preMatches, RuneString(days), now)

\* a download request has pre-matched its destination, some day
CleanNext ==
  \/ \E d \in StatusDests, m \in SaveIds :
       PreMatch_Saved(d, m) /\ UNCHANGED <<before, pvars>> /\ UNCHANGED <<svars, now, avars, xvars>>
  \/ Tick /\ UNCHANGED <<authed, win, hist, evicted, hvars>>
  \/ \E days \in CleanupDays :
       CleanupOldTorrentPreMatches(SeqProc, days) /\ UNCHANGED lastSaved /\ PFrame

CleanSpec == Init /\ [][CleanNext]_vars

\* ================================================================ HandleLogout
\* lines 299-310: Store.GetAuthenticatedSessions, under RLock
GetAuthenticatedSessions ==
  {i \in Ids : sessions[i].oid # 0 /\ ~sessions[i].IsSimulated /\ sessions[i].Token # ""}

\* lines 479-483: the session id from the context
Logout_Begin(id) ==
  /\ call.pc = "idle"
  /\ pc[SeqProc] = "idle"
  /\ call' = IF id = ""
               THEN [NoCall EXCEPT !.op = "logout", !.pc = "done", !.err = TRUE]
               ELSE [NoCall EXCEPT !.op = "logout", !.pc = "lo_logout", !.sessionID = id]
  /\ UNCHANGED <<app, sessions, clients, now, pc, loc>>

\* line 486: h.App.SessionStore.Logout(sessionID) is entered
Logout_Store ==
  /\ call.pc = "lo_logout"
  /\ Logout_Build(SeqProc, call.sessionID)
  /\ call' = [call EXCEPT !.pc = "lo_global"]
  /\ UNCHANGED app

\* lines 488-525: Logout has returned; only when no session is authenticated
\* any more the global client loses its token and the simulated platform is
\* installed (its construction can fail)
Logout_Global ==
  /\ call.pc = "lo_global"
  /\ pc[SeqProc] = "idle"
  /\ IF GetAuthenticatedSessions # {}
       THEN /\ call' = [call EXCEPT !.pc = "done"]
            /\ UNCHANGED app
       ELSE \E built \in BOOLEAN, saved \in BOOLEAN :
              IF ~built
                THEN /\ app' = UpdateAnilistClientToken("")
                     /\ call' = [call EXCEPT !.pc = "done", !.err = TRUE]
                ELSE /\ app' = [UpdateAnilistClientToken("") EXCEPT !.Platform = "simulated"]
                     /\ call' = [call EXCEPT !.pc = "done",
                                   !.log = Append(@, Called("UpsertAccount", saved))]
  /\ UNCHANGED <<sessions, clients, now, pc, loc>>

\* ---------------------------------------------------------------- the user and the token of a session
SimulatedUser == [Viewer |-> NilViewer, Token |-> "SIMULATED", IsSimulated |-> TRUE]

\* faulty variant: the user carries the session's token
ToUser_WithToken(s) ==
  IF s.IsSimulated \/ s.Token = "" THEN SimulatedUser
  ELSE [Viewer |-> s.Viewer, Token |-> s.Token, IsSimulated |-> FALSE]

\* Session.ToUser
ToUser(s) ==
  IF s.IsSimulated \/ s.Token = "" THEN SimulatedUser
  ELSE [Viewer |-> s.Viewer, Token |-> "HIDDEN", IsSimulated |-> FALSE]

\* Session.GetToken
GetToken(s) == IF s.IsSimulated THEN "" ELSE s.Token

\* App.GetUserAnilistTokenFromSession of an App with a session store, line 46:
\* a.SessionStore.GetSession(sessionID) is entered
Token_Begin(id) ==
  /\ call.pc = "idle"
  /\ app.SessionStore
  /\ GetSession_Read(SeqProc, id)
  /\ call' = [NoCall EXCEPT !.op = "token", !.pc = "tk_check", !.sessionID = id]
  /\ UNCHANGED app

\* lines 47-50: GetSession has returned
Token_Return ==
  /\ call.pc = "tk_check"
  /\ pc[SeqProc] = "idle"
  /\ LET sess == loc[SeqProc].sess IN
       call' = [call EXCEPT !.pc = "done",
                            !.token = IF sess.oid = 0 \/ sess.IsSimulated THEN ""
                                      ELSE GetToken(sess)]
  /\ UNCHANGED <<app, sessions, clients, now, pc, loc>>

\* ---------------------------------------------------------------- the auth handlers, one request at a time
AuthNext ==
  \/ \E id \in Ids \cup {""}, t \in Tokens, bound \in BOOLEAN :
       Login_Begin(id, t, bound) /\ held' = Holding(id) /\ LFrame
  \/ Login_GetViewer /\ UNCHANGED held /\ LFrame
  \/ Login_Store /\ UNCHANGED held /\ LFrame
  \/ Login_Global /\ UNCHANGED held /\ LFrame
  \/ \E id \in Ids \cup {""} : Logout_Begin(id) /\ held' = Holding(id) /\ LFrame
  \/ Logout_Store /\ UNCHANGED held /\ LFrame
  \/ Logout_Global /\ UNCHANGED held /\ LFrame
  \/ \E id \in Ids : Token_Begin(id) /\ held' = Holding(id) /\ LFrame
  \/ Token_Return /\ UNCHANGED held /\ LFrame
  \/ Call_SetSession(SeqProc) /\ UNCHANGED <<app, call, held>> /\ LFrame
  \/ Call_UpdateAnilistClient(SeqProc) /\ UNCHANGED <<app, call, held>> /\ LFrame
  \/ GetSession_Create(SeqProc) /\ UNCHANGED <<app, call, held>> /\ LFrame
  \/ GetSession_Store(SeqProc) /\ UNCHANGED <<app, call, held>> /\ LFrame
  \/ GetSession_Touch(SeqProc) /\ UNCHANGED <<app, call, held>> /\ LFrame
  \/ Call_Return /\ held' = NoHeld /\ LFrame

AuthSpec == Init /\ [][AuthNext]_vars

\* ================================================================ the status query, asked again
\* The client and the table are set up, a status query is answered, and the
\* query is asked again over the same torrents and the same table.

\* the records of an answer, whatever their order
Records(result) == {result[i] : i \in 1..Len(result)}

StatusAnswered ==
  /\ req.kind = "status"
  /\ Succeeded(calls, "GetActiveTorrents")
  /\ Succeeded(calls, "GetAllTorrentPreMatches")

\* history: the first answer, with the torrents and the map it was computed from
Remember ==
  lastStatus' = IF StatusAnswered /\ ~lastStatus.asked
                  THEN [torrents |-> req.torrents, dests |-> req.destToMediaId,
                        data |-> Records(req.result), asked |-> TRUE]
                  ELSE lastStatus

RFrame == UNCHANGED <<svars, now, pvars, avars, selection>>

RepeatNext ==
  \/ /\ Status_Begin
     /\ (lastStatus.asked /\ calls'[1].ok) => req'.torrents = lastStatus.torrents
     /\ Arrive
  \/ Status_PreMatches /\ Go
  \/ Status_Match /\ Go
  \/ Status_Respond /\ Go
  \/ Handler_Return /\ before' = StoppedDaemon /\ Remember /\ RFrame
  \/ ~lastStatus.asked /\ List_Begin /\ Arrive
  \/ List_Start /\ Go
  \/ List_Retry /\ Go
  \/ \E h \in Hashes : ~lastStatus.asked /\ Daemon_Add(h) /\ Go
  \/ \E d \in StatusDests, m \in SaveIds : ~lastStatus.asked /\ PreMatch_Saved(d, m) /\ Go

RepeatSpec == Init /\ [][RepeatNext]_vars

\* ================================================================ claims

\* C1: once a login(id, T, identity) that no logout, delete or eviction of id
\* has disturbed has returned, the session stored for id is the authenticated
\* one (isSimulated = false, token = T): a concurrent get(id) never replaces it
\* with a simulated session.
C1_LoginIsKept ==
  \A i \in ConcIds :
    authed[i] # "" =>
      /\ sessions[i].oid # 0
      /\ ~sessions[i].IsSimulated
      /\ sessions[i].Token = authed[i]

\* C2: a getClient(id) that starts after an undisturbed login(id, T, identity)
\* has returned returns a client built with token T, and the client cached for
\* id is built with T once no getClient is in flight any more.
C2_ClientAfterLogin ==
  /\ \A p \in Procs :
       (pc[p] = "idle" /\ loc[p].op = "getClient" /\ win[p] # "")
         => loc[p].cli.token = win[p]
  /\ \A i \in ConcIds :
       (authed[i] # "" /\ clients[i].ref # 0 /\ \A p \in Procs : pc[p] = "idle")
         => clients[i].token = authed[i]

\* C3: after any sequential sequence of get, set, login, logout, getClient,
\* delete and sweep, the client getClient(id) returns is built with the token
\* of the session stored for id (the empty token when it is simulated or absent).
C3_ClientMatchesSession ==
  (pc[SeqProc] = "idle" /\ hist[2].op = "getClient")
    => loc[SeqProc].cli.token = ClientToken(sessions[hist[2].id])

\* C4: every stored session with isSimulated = true has an empty token and a
\* null identity.
C4_SimulatedIsGuest ==
  \A i \in Ids :
    (sessions[i].oid # 0 /\ sessions[i].IsSimulated)
      => (sessions[i].Token = "" /\ sessions[i].Viewer = NilViewer)

\* a logout has returned while another caller is inside a login of the same id
C4_Witness ==
  \E p, q \in Procs :
    /\ pc[p] = "idle" /\ loc[p].op = "logout"
    /\ pc[q] = "update_client" /\ loc[q].op = "login" /\ loc[q].id = loc[p].id
    /\ sessions[loc[p].id].oid # 0 /\ sessions[loc[p].id].IsSimulated

\* C5: a get(id) for an id that is not stored returns a simulated session
\* with an empty token and stores it; a second get(id) right after it returns
\* the same session object, with a last-accessed time not before the previous
\* one; get never returns null.
C5_GetCreatesOnce ==
  (pc[SeqProc] = "idle" /\ hist[2].op = "get") =>
    LET id == hist[2].id
        r == loc[SeqProc].sess
        absentBefore == \/ hist[1].op = "none"
                        \/ hist[1].op = "delete" /\ hist[1].id = id
                        \/ hist[1].op = "sweep" /\ id \in evicted
    IN /\ r.oid # 0
       /\ sessions[id] = r
       /\ absentBefore => hist[2].fresh
       /\ hist[2].fresh => (r.IsSimulated /\ r.Token = "")
       /\ (hist[1].op = "get" /\ hist[1].id = id) =>
            (r.oid = hist[1].oid /\ r.LastAccessed >= hist[1].la)

\* two gets of one id in a row, the first of which created the session, the
\* second on a later day
C5_Witness ==
  /\ pc[SeqProc] = "idle"
  /\ hist[1].op = "get" /\ hist[1].fresh
  /\ hist[2].op = "get" /\ hist[2].id = hist[1].id
  /\ loc[SeqProc].sess.IsSimulated
  /\ loc[SeqProc].sess.LastAccessed > hist[1].la

\* C6: logout(id) leaves id with a simulated session (empty token, null
\* identity) and a cached client built with the empty token, whatever came
\* before it: a login, another logout, or nothing at all.
C6_LogoutState ==
  (pc[SeqProc] = "idle" /\ hist[2].op = "logout") =>
    LET id == hist[2].id IN
      /\ sessions[id].oid # 0
      /\ sessions[id].IsSimulated
      /\ sessions[id].Token = ""
      /\ sessions[id].Viewer = NilViewer
      /\ clients[id].ref # 0
      /\ clients[id].token = ""

\* a logout right after a login of the same id
C6_Witness ==
  /\ pc[SeqProc] = "idle"
  /\ hist[1].op = "login" /\ hist[2].op = "logout" /\ hist[1].id = hist[2].id
  /\ clients[hist[2].id].token = ""

\* a step of an operation invoked with id a (not the cleanup, not the clock)
OpStepOn(a) ==
  /\ now' = now
  /\ hist'[2].op # "sweep"
  /\ loc'[SeqProc].id = a
  /\ <<pc, loc>>' # <<pc, loc>>

\* C7: every step of an operation invoked with one session id leaves the
\* stored session and the cached client of every other id unchanged, and no
\* client object is cached under two session ids.
C7_Independent ==
  [][ /\ \A a \in Ids : OpStepOn(a) =>
           \A b \in Ids \ {a} : sessions'[b] = sessions[b] /\ clients'[b] = clients[b]
      /\ \A a, b \in Ids :
           (a # b /\ clients'[a].ref # 0) => clients'[a].ref # clients'[b].ref
    ]_vars

\* both ids hold a session and a client, one logged in and one a guest
C7_Witness ==
  /\ sessions["s1"].Token = "T1" /\ clients["s1"].token = "T1"
  /\ sessions["s2"].oid # 0 /\ sessions["s2"].IsSimulated /\ clients["s2"].ref # 0
  /\ hist[1].id = "s2" /\ hist[2].id = "s1" /\ hist[2].op = "login"
  /\ pc[SeqProc] = "idle"

\* C8: one run of cleanup removes exactly the sessions last accessed more than
\* 7 days before it, with their cached clients, and leaves every other session
\* and cached client as it was.
C8_SweepExact ==
  [][ Cleanup =>
        \A i \in Ids :
          IF sessions[i].oid # 0 /\ now - sessions[i].LastAccessed > Retention
            THEN sessions'[i] = NoSession /\ clients'[i] = NoClient
            ELSE sessions'[i] = sessions[i] /\ clients'[i] = clients[i]
    ]_vars

\* the cleanup has just removed s1 and kept s2, accessed within the last day
C8_Witness ==
  /\ hist[2].op = "sweep" /\ evicted = {"s1"}
  /\ sessions["s1"].oid = 0 /\ clients["s1"].ref = 0
  /\ sessions["s2"].oid # 0 /\ clients["s2"].ref # 0
  /\ now - sessions["s2"].LastAccessed <= 1

\* C9: every cached client belongs to a stored session (the key set of the
\* client map is a subset of the key set of the session map).
C9_ClientsHaveSessions ==
  \A i \in Ids : clients[i].ref # 0 => sessions[i].oid # 0

\* C10: with the cleanup interleaved anywhere, no call panics; a get returns a
\* session and a getClient a client, never null; a get that found the id
\* absent returns a newly created simulated session, which the registry holds
\* for the id when it returns.
C10_SweepRace ==
  /\ [](\A p \in Procs : pc[p] # "panic")
  /\ [][ \A p \in Procs :
           /\ (pc[p] = "gs_store" /\ pc'[p] = "idle") =>
                /\ loc'[p].sess.oid # 0
                /\ loc'[p].sess.IsSimulated /\ loc'[p].sess.Token = ""
                /\ sessions'[loc'[p].id] = loc'[p].sess
           /\ (pc[p] = "gs_touch" /\ pc'[p] = "idle") =>
                (loc'[p].sess.oid # 0 /\ loc'[p].sess.ID = loc'[p].id)
           /\ (pc'[p] = "idle" /\ loc'[p].op = "getClient" /\ loc'[p] # loc[p]) =>
                loc'[p].cli.ref # 0
       ]_vars

\* p is inside a get whose session the cleanup has evicted, and the next get,
\* by q, has created and stored a new simulated session
C10_Witness ==
  \E p, q \in Procs :
    /\ pc[p] = "gs_touch" /\ loc[p].id \in evicted
    /\ now - loc[p].sess.LastAccessed > Retention
    /\ pc[q] = "idle" /\ loc[q].op = "get" /\ loc[q].id = loc[p].id
    /\ sessions[loc[p].id] = loc[q].sess
    /\ loc[q].sess.IsSimulated /\ loc[q].sess.oid # loc[p].sess.oid

\* ================================================================ claims on the torrent client
DownloadDone == hpc = "done" /\ req.kind = "download"
BranchOps == {"SmartSelect", "DeselectAndDownload", "AddMagnets"}
DaemonOps == BranchOps \cup {"Start", "RemoveTorrents"}
HandedOver == Cardinality({i \in 1..Len(calls) : calls[i].op \in BranchOps /\ calls[i].ok})

\* C11: a download request runs at most one of the three download branches
\* (smart select, deselect-and-download, plain add), and exactly one when it
\* answers success; so no torrent is handed to the client twice.
C11_OneBranch ==
  DownloadDone =>
    /\ Cardinality(Ops(calls) \cap BranchOps) <= 1
    /\ HandedOver <= 1
    /\ resp.status = "data" => Cardinality(Ops(calls) \cap BranchOps) = 1

\* the rejection of smart select over several torrents has been answered
SmartSelectRejected ==
  /\ DownloadDone
  /\ req.smartSelect
  /\ Len(req.torrents) > 1
  /\ ~req.media.isNil
  /\ Succeeded(calls, "Start") \/ "Start" \notin Ops(calls)
  /\ IsAbs(req.destination)

\* C12: a smart-select request with more than one torrent is answered with an
\* error, and when that answer is given no start, add, select or remove has
\* been issued to the client, no pre-match was saved and no collection
\* goroutine was started.
C12_RejectedUntouched ==
  SmartSelectRejected =>
    /\ resp.status = "error"
    /\ Ops(calls) \cap DaemonOps = {}
    /\ "SaveTorrentPreMatch" \notin Ops(calls)
    /\ task.pc = "none"

\* C13: a download request with an empty or a relative destination is
\* answered with an error before any collaborator is called.
C13_DestinationFirst ==
  (req.kind = "download" /\ (req.destination = NoPath \/ ~IsAbs(req.destination))) =>
    /\ hpc = "done"
    /\ resp.status = "error"
    /\ calls = <<>>
    /\ task.pc = "none"

C13_Witness ==
  /\ DownloadDone
  /\ req.destination # NoPath
  /\ ~IsAbs(req.destination)
  /\ resp.status = "error"

\* C14: when Start fails, the download request is answered with an error after
\* that one attempt: nothing else is called, nothing is added to the client,
\* no pre-match is saved and no collection goroutine is started.
C14_StartFailureFinal ==
  (req.kind = "download" /\ Called("Start", FALSE) \in {calls[i] : i \in 1..Len(calls)}) =>
    /\ hpc = "done"
    /\ resp.status = "error"
    /\ calls = <<Called("Start", FALSE)>>
    /\ daemon.torrents = before.torrents
    /\ task.pc = "none"

C14_Witness ==
  /\ DownloadDone
  /\ calls = <<Called("Start", FALSE)>>
  /\ resp.status = "error"

\* a magnet of the plain-add loop could not be resolved
ResolveFailed ==
  \E i \in 1..Len(calls) :
    calls[i].op \in {"GetAnimeProviderExtension", "GetTorrentMagnetLink"} /\ ~calls[i].ok

\* C15: when a magnet of the plain-add branch cannot be resolved, the request
\* is answered with an error, no torrent of the request has been handed to the
\* client and no pre-match is saved.
C15_ResolveAllOrNothing ==
  (req.kind = "download" /\ ResolveFailed) =>
    /\ hpc = "done"
    /\ resp.status = "error"
    /\ HandedOver = 0
    /\ "SaveTorrentPreMatch" \notin Ops(calls)

\* C16: a download request saves a pre-match exactly when it carries a media
\* id and its download step succeeded; the save is the last call, after the
\* download; whether the save fails or not the answer is success, and a save
\* that succeeded left the row of the destination with the media id.
C16_PreMatchAfterDownload ==
  DownloadDone =>
    /\ "SaveTorrentPreMatch" \in Ops(calls)
         <=> (~req.media.isNil /\ req.media.ID > 0 /\ resp.status = "data")
    /\ "SaveTorrentPreMatch" \in Ops(calls) =>
         /\ Times(calls, "SaveTorrentPreMatch") = 1
         /\ calls[Len(calls)].op = "SaveTorrentPreMatch"
         /\ \E j \in 1..(Len(calls) - 1) : calls[j].op \in BranchOps /\ calls[j].ok
         /\ resp = RespondWithData({"true"})
    /\ Succeeded(calls, "SaveTorrentPreMatch") =>
         \E i \in 1..Len(preMatches) :
           /\ preMatches[i].Destination = NormalizePath(req.destination)
           /\ preMatches[i].MediaId = req.media.ID

C16_Witness ==
  /\ DownloadDone
  /\ Called("SaveTorrentPreMatch", FALSE) \in {calls[i] : i \in 1..Len(calls)}
  /\ resp.status = "data"
  /\ preMatches = <<>>

\* C17: the step in which GetAnimeWithRelations fails does not answer the
\* request: the handler goes on to the download step with the media of the
\* request body.
C17_LookupFailureGoesOn ==
  [][(Times(calls', "GetAnimeWithRelations") > Times(calls, "GetAnimeWithRelations")
        /\ ~calls'[Len(calls')].ok) =>
       /\ hpc' = "dl_smart"
       /\ resp' = NoResp
       /\ req'.completeAnime = "partial"]_vars

C17_Witness ==
  /\ DownloadDone
  /\ Called("GetAnimeWithRelations", FALSE) \in {calls[i] : i \in 1..Len(calls)}
  /\ req.completeAnime = "partial"
  /\ resp.status = "data"

\* C18: the collection goroutine starts when the answer is given and none of
\* its steps changes the answer; it calls AddMediaToCollection only for a
\* media that is not in the collection, and it refreshes the collection and
\* sends the event only after it has added the media.
C18_SyncDetached ==
  [][/\ (task.pc = "none" /\ task'.pc # "none") => resp'.status = "data"
     /\ (task.pc # "none" /\ task' # task /\ task'.pc # "none") =>
          resp' = resp /\ hpc' = hpc
     /\ Times(task'.log, "AddMediaToCollection") > Times(task.log, "AddMediaToCollection") =>
          task.media.ID \notin collection
     /\ Ops(task'.log) \cap {"RefreshAnimeCollection", "SendEvent"} # {} =>
          Succeeded(task'.log, "AddMediaToCollection")]_vars

ListDone == hpc = "done" /\ req.kind = "list"

\* C19: when the first GetActiveTorrents fails the list handler calls Start
\* once and, if the client started, GetActiveTorrents once more; when that
\* second call fails too the answer is an error, not a (empty) list.
C19_ListRetryPropagates ==
  ListDone =>
    /\ ~calls[1].ok => Times(calls, "Start") = 1
    /\ Succeeded(calls, "Start") => Times(calls, "GetActiveTorrents") = 2
    /\ (Len(calls) = 3 /\ ~calls[3].ok) => resp.status = "error"

FilesDone == hpc = "done" /\ req.kind = "files"

\* C20: a get-files request for a torrent the client did not hold leaves the
\* client without it, on every path on which the removal did not itself fail.
C20_ProbeLeavesNothing ==
  (FilesDone /\ req.hash \notin before.torrents
     /\ Called("RemoveTorrents", FALSE) \notin {calls[i] : i \in 1..Len(calls)}) =>
    req.hash \notin daemon.torrents

\* C21: a get-files request for a torrent the client already held leaves the
\* client's torrents as they were, and when TorrentExists found it the request
\* issues neither AddMagnets nor RemoveTorrents; when the removal of a torrent
\* the request added fails, the answer is still the listed files.
C21_ProbeFrame ==
  FilesDone =>
    /\ req.hash \in before.torrents => daemon.torrents = before.torrents
    /\ req.exists => Ops(calls) \cap {"AddMagnets", "RemoveTorrents"} = {}
    /\ Called("RemoveTorrents", FALSE) \in {calls[i] : i \in 1..Len(calls)} =>
         resp = RespondWithData(FilesOf(req.hash))

C21_Witness ==
  /\ FilesDone
  /\ ~req.exists
  /\ Called("RemoveTorrents", FALSE) \in {calls[i] : i \in 1..Len(calls)}
  /\ req.hash \in daemon.torrents
  /\ resp.status = "data"

\* a request found its torrent in the client and listed its files
C21_WitnessHeld ==
  /\ FilesDone
  /\ req.exists
  /\ req.hash \in before.torrents
  /\ resp = RespondWithData(FilesOf(req.hash))

\* ================================================================ claims on the pre-match store
\* C22: after any sequence of saves the table holds at most one row for a
\* normalized destination, and the row of a destination carries the media id
\* of the last save of that destination that returned without an error.
C22_Upsert ==
  /\ \A i \in 1..Len(preMatches) : preMatches[i].Destination \in NormDests
  /\ \A d \in NormDests :
       /\ Cardinality(RowsOf(preMatches, d)) <= 1
       /\ lastSaved[d] = 0 => RowsOf(preMatches, d) = {}
       /\ lastSaved[d] # 0 =>
            \E i \in RowsOf(preMatches, d) : preMatches[i].MediaId = lastSaved[d]

\* a save has replaced media id 42 of a destination by 99
C22_Witness ==
  LET f == sloc[SeqProc] IN
    /\ f.op = "save" /\ f.pc = "idle" /\ ~f.err
    /\ f.existing.MediaId = 42 /\ f.id = 99
    /\ Cardinality(RowsOf(preMatches, f.dest)) = 1
    /\ lastSaved[f.dest] = 99

\* the destination ends where a segment of the path ends
SegmentPrefix(path, dest) ==
  /\ HasPrefix(path, dest)
  /\ \/ Len(path) = Len(dest)
     \/ path[Len(dest) + 1] = "/"
     \/ (Len(dest) > 0 /\ dest[Len(dest)] = "/")

GetForPathDone == sloc[SeqProc].op = "getForPath" /\ sloc[SeqProc].pc = "idle"

\* C24: the media id getForPath returns for a file path is stored for a
\* destination that ends at a segment boundary of the path.
C24_WholeSegments ==
  (GetForPathDone /\ sloc[SeqProc].found) =>
    \E i \in 1..Len(preMatches) :
      /\ preMatches[i].MediaId = sloc[SeqProc].id
      /\ SegmentPrefix(sloc[SeqProc].dest, preMatches[i].Destination)

\* C25: getForPath returns found, with the media id of a stored destination
\* that is a prefix of the normalized path, whenever such a destination is
\* stored, and not found exactly when none is.
C25_FoundIffPrefix ==
  GetForPathDone =>
    LET f == sloc[SeqProc] IN
      /\ f.found <=> MatchingRows(preMatches, f.dest) # {}
      /\ f.found => \E i \in MatchingRows(preMatches, f.dest) : preMatches[i].MediaId = f.id

\* C25, amended: ... and not found exactly when none is or the table could
\* not be read; the id is that of the first such row of the table.
C25_FoundIffPrefixRead ==
  GetForPathDone =>
    LET f == sloc[SeqProc]
        hits == MatchingRows(preMatches, f.dest)
    IN /\ f.found <=> (hits # {} /\ ~f.fault)
       /\ f.found => \E i \in hits : /\ preMatches[i].MediaId = f.id
                                     /\ \A j \in hits : i <= j

\* the table holds a prefix of the path and could not be read
C25_Witness ==
  /\ GetForPathDone
  /\ sloc[SeqProc].fault
  /\ ~sloc[SeqProc].found
  /\ MatchingRows(preMatches, sloc[SeqProc].dest) # {}

SaveDone(p) == sloc[p].op = "save" /\ sloc[p].pc = "idle" /\ ~sloc[p].fault

\* C23: with saves running at the same time the table still holds at most one
\* row for a destination, and the row carries the media id of the last write
\* to that destination that succeeded, whatever was written to other
\* destinations; two saves that both found the destination not stored leave
\* exactly one row for it, with the media id of one of them.
C23_Serialized ==
  /\ \A d \in NormDests :
       /\ Cardinality(RowsOf(preMatches, d)) <= 1
       /\ lastSaved[d] # 0 =>
            \E i \in RowsOf(preMatches, d) : preMatches[i].MediaId = lastSaved[d]
  /\ \A p, q \in Procs :
       (p # q /\ SaveDone(p) /\ SaveDone(q) /\ sloc[p].fresh /\ sloc[q].fresh
          /\ sloc[p].dest = sloc[q].dest) =>
         /\ Cardinality(RowsOf(preMatches, sloc[p].dest)) = 1
         /\ \E i \in RowsOf(preMatches, sloc[p].dest) :
              preMatches[i].MediaId \in {sloc[p].id, sloc[q].id}
         /\ sloc[p].err # sloc[q].err

\* two saves of different media ids both found the destination not stored, and
\* both have returned
C23_Witness ==
  \E p, q \in Procs :
    /\ p # q /\ SaveDone(p) /\ SaveDone(q) /\ sloc[p].fresh /\ sloc[q].fresh
    /\ sloc[p].dest = sloc[q].dest
    /\ sloc[p].id # sloc[q].id
    /\ Cardinality(RowsOf(preMatches, sloc[p].dest)) = 1

\* ================================================================ claims on the status query
StatusDone == hpc = "done" /\ req.kind = "status"

\* C26: the status query never answers an error; when the list of active
\* torrents or the pre-match table could not be got it answers the empty list
\* as data, and it never calls Start.
C26_StatusNeverFails ==
  /\ req.kind = "status" => "Start" \notin Ops(calls)
  /\ StatusDone =>
       /\ resp.status = "data"
       /\ (Called("GetActiveTorrents", FALSE) \in {calls[i] : i \in 1..Len(calls)}
             \/ Called("GetAllTorrentPreMatches", FALSE) \in {calls[i] : i \in 1..Len(calls)})
            => resp.data = {}

\* the table could not be read while the client listed a torrent under a
\* pre-matched destination
C26_Witness ==
  /\ StatusDone
  /\ Called("GetAllTorrentPreMatches", FALSE) \in {calls[i] : i \in 1..Len(calls)}
  /\ \E i \in 1..Len(req.torrents), j \in 1..Len(preMatches) :
       HasPrefix(NormalizePath(req.torrents[i].ContentPath), preMatches[j].Destination)
  /\ resp = RespondWithData({})

\* the client was not running when the status was asked
C26_WitnessStopped ==
  /\ StatusDone
  /\ ~daemon.running
  /\ calls = <<Called("GetActiveTorrents", FALSE)>>
  /\ resp = RespondWithData({})

\* C27: in the answer of the status query a media id appears once; the media
\* id of a record is pre-matched to a destination that is a prefix of the
\* content path of an active torrent, and the record has the status and the
\* progress of the first torrent of the list under such a destination.
C27_FirstTorrentWins ==
  (StatusDone /\ Succeeded(calls, "GetAllTorrentPreMatches")) =>
    /\ \A i, j \in 1..Len(req.result) :
         req.result[i].MediaId = req.result[j].MediaId => i = j
    /\ \A i \in 1..Len(req.result) :
         LET under == {k \in 1..Len(req.torrents) :
                         \E e \in req.destToMediaId :
                           e.id = req.result[i].MediaId /\ Matches(req.torrents[k], e)}
         IN /\ under # {}
            /\ LET first == CHOOSE k \in under : \A l \in under : k <= l
               IN req.result[i] = MediaDownloadStatus(req.result[i].MediaId,
                                                      req.torrents[first])

\* ================================================================ claims on the App
UpdateDone == call.op = "update" /\ call.pc = "done"

\* C28: an update sent through the session's client has the status COMPLETED
\* exactly when the total is known (not nil and above zero) and the progress
\* has reached it, and CURRENT otherwise; the progress sent is the smaller of
\* progress and total when the total is known, and the progress given
\* otherwise.
C28_StatusAndClamp ==
  (UpdateDone /\ Len(call.sent) = 1 /\ call.sent[1].via = "session") =>
    LET u == call.sent[1]
        known == ~call.totalEpisodes.isNil /\ call.totalEpisodes.val > 0
        total == call.totalEpisodes.val
    IN /\ u.status = "COMPLETED" <=> (known /\ call.progress >= total)
       /\ u.status \in {"COMPLETED", "CURRENT"}
       /\ known => u.progress = (IF call.progress <= total THEN call.progress ELSE total)
       /\ ~known => u.progress = call.progress
       /\ u.mediaID = call.mediaID

\* progress 3 of 2 episodes has gone out through the session's client
C28_Witness ==
  /\ UpdateDone
  /\ call.progress = 3 /\ call.totalEpisodes = IntPtr(2)
  /\ call.sessionID # "" /\ app.SessionStore
  /\ call.sent = <<ViaClient(clients[call.sessionID], 42, 2, "COMPLETED")>>

\* the session at the moment the caller has its answer
AuthenticatedSession(id) ==
  /\ id # "" /\ app.SessionStore
  /\ sessions[id].oid # 0 /\ ~sessions[id].IsSimulated /\ sessions[id].Token # ""

\* C29: a progress update goes out once; through the client cached for the
\* session when the id is not empty, the store is set and the session is an
\* authenticated one with a token, and through the global platform otherwise.
\* GetAnilistClientForSession returns a client in every case.
C29_OneRoute ==
  /\ UpdateDone =>
       /\ Len(call.sent) = 1
       /\ call.sent[1].via = "session" <=> AuthenticatedSession(call.sessionID)
       /\ call.sent[1].via = "session" =>
            /\ call.sent[1].client = clients[call.sessionID]
            /\ call.sent[1].client.ref # 0
       /\ call.sent[1].via # "session" => call.sent[1].via = "platform"
  /\ (call.op = "resolve" /\ call.pc = "done") =>
       /\ call.client.ref # 0
       /\ call.client = (IF call.sessionID = "" \/ ~app.SessionStore
                           THEN app.AnilistClientRef ELSE clients[call.sessionID])

\* an update for a session that is a guest's went to the global platform, in
\* an App that has a session store
C29_Witness ==
  /\ UpdateDone
  /\ app.SessionStore
  /\ call.sessionID # ""
  /\ sessions[call.sessionID].IsSimulated
  /\ call.sent[1].via = "platform"

\* ================================================================ claims on the login handler
LoginDone == call.op = "login" /\ call.pc = "done"

\* AniList rejected the token, or answered a viewer without a name
LoginRejected ==
  /\ LoginDone
  /\ \/ Called("GetViewer", FALSE) \in {call.log[i] : i \in 1..Len(call.log)}
     \/ (Called("GetViewer", TRUE) \in {call.log[i] : i \in 1..Len(call.log)}
           /\ Len(call.viewer.Name) = 0)

\* C30: a login that AniList rejects, or that gets a viewer without a name,
\* answers an error, and the session of the request (token, viewer,
\* isSimulated), the client cached for it and the client behind
\* AnilistClientRef are what they were when the request came.
C30_FailedLoginChangesNothing ==
  LoginRejected =>
    /\ call.err
    /\ sessions[call.sessionID] = held.session
    /\ clients[call.sessionID] = held.client
    /\ app.AnilistClientRef = held.default

\* a login with another token was rejected for a session that is logged in
\* and has a cached client
C30_Witness ==
  /\ LoginRejected
  /\ call.viewer = Viewer("")
  /\ ~held.session.IsSimulated /\ held.session.Token # ""
  /\ held.session.Token # call.token
  /\ held.client.ref # 0
  /\ held.default.token # ""
  /\ sessions[call.sessionID].Token = held.session.Token

\* ================================================================ claims on smart select
SmartDone == selection.pc = "done"
Desired == {selection.episodes[i] : i \in 1..Len(selection.episodes)}

\* C31: when smart select is done, every desired episode that has a file has
\* exactly one marked file, a largest one of the episode; no other file is
\* marked, every file not marked is deselected, and an episode without a file
\* is left out.
C31_SmartSelect ==
  SmartDone =>
    LET files == selection.files IN
      /\ \A ep \in Desired :
           LET matches == FilesOfEpisode(files, ep) IN
             /\ matches # {} =>
                  /\ Cardinality(matches \cap selection.selected) = 1
                  /\ \A i \in matches \cap selection.selected :
                       \A j \in matches : files[j].Size <= files[i].Size
             /\ matches = {} => \A i \in selection.selected : files[i].Episode # ep
      /\ \A i \in selection.selected : files[i].Episode \in Desired
      /\ selection.selected \subseteq 1..Len(files)
      /\ selection.deselected = (1..Len(files)) \ selection.selected

\* episodes 1 and 4 are desired; episode 1 has a small and a large file,
\* episode 3 a file, episode 4 none
C31_Witness ==
  /\ SmartDone
  /\ selection.episodes = <<1, 4>>
  /\ selection.files = <<TorrentFile(1, 1), TorrentFile(1, 2), TorrentFile(3, 2)>>
  /\ selection.selected = {2}
  /\ selection.deselected = {1, 3}

\* ================================================================ claims on the cleanup by age
\* the rows created more than days days before day t
TooOld(rows, days, t) == {i \in 1..Len(rows) : rows[i].CreatedAt < t - days}

\* C32: a deleteOlderThan(days) that returns without an error removes the
\* rows created more than days days ago and keeps every other row.
C32_DeleteOlderThan ==
  [][(sloc'[SeqProc] # sloc[SeqProc] /\ sloc'[SeqProc].op = "cleanup"
        /\ ~sloc'[SeqProc].err) =>
       /\ \A i \in 1..Len(preMatches) :
            i \in TooOld(preMatches, sloc'[SeqProc].id, now) <=>
              preMatches[i] \notin {preMatches'[j] : j \in 1..Len(preMatches')}
       /\ \A j \in 1..Len(preMatches') :
            preMatches'[j] \in {preMatches[i] : i \in 1..Len(preMatches)}]_vars

\* ================================================================ claims on the auth handlers
\* C33: between the requests the token of the client behind AnilistClientRef
\* is empty or the token of a session that is authenticated.
C33_DefaultTokenIsLive ==
  call.pc = "idle" =>
    \/ app.AnilistClientRef.token = ""
    \/ \E i \in GetAuthenticatedSessions : sessions[i].Token = app.AnilistClientRef.token

\* C37: the user of a session is the simulated user or carries the token
\* HIDDEN, never the session's token; the token resolver answers the empty
\* token for a simulated session and the stored token for any other.
C37_TokenNotExposed ==
  /\ \A i \in Ids :
       sessions[i].oid # 0 =>
         /\ ToUser(sessions[i]) = SimulatedUser \/ ToUser(sessions[i]).Token = "HIDDEN"
         /\ sessions[i].Token # "" => ToUser(sessions[i]).Token # sessions[i].Token
         /\ sessions[i].IsSimulated => ToUser(sessions[i]) = SimulatedUser
  /\ (call.op = "token" /\ call.pc = "done") =>
       /\ sessions[call.sessionID].oid # 0
       /\ call.token = (IF sessions[call.sessionID].IsSimulated THEN ""
                        ELSE sessions[call.sessionID].Token)

\* the token of a session that is logged in has been resolved, and its user
\* record hides it
C37_Witness ==
  /\ call.op = "token" /\ call.pc = "done"
  /\ call.token \in Tokens
  /\ ~sessions[call.sessionID].IsSimulated
  /\ ToUser(sessions[call.sessionID]).Token = "HIDDEN"

\* the token resolver has made the session of a new cookie, a guest's
C37_WitnessGuest ==
  /\ call.op = "token" /\ call.pc = "done"
  /\ call.token = ""
  /\ held.session = NoSession
  /\ sessions[call.sessionID].IsSimulated

\* ================================================================ claims on the repeated status query
\* C34: a status query over the torrents and the table of an earlier one
\* answers the same set of records.
C34_Deterministic ==
  (StatusDone /\ StatusAnswered /\ lastStatus.asked
     /\ req.torrents = lastStatus.torrents /\ req.destToMediaId = lastStatus.dests) =>
    Records(req.result) = lastStatus.data

\* ================================================================ claims on requests the handler cannot serve
\* a download request without a media has been answered
NoMediaDone == DownloadDone /\ req.media.isNil

\* C35: a download request without a media does not crash: it is answered
\* with success, without a pre-match saved and without a collection
\* goroutine, or with an error before any call of the request changed the
\* torrent client.
C35_NoMediaNoCrash ==
  NoMediaDone =>
    \/ /\ resp.status = "data"
       /\ "SaveTorrentPreMatch" \notin Ops(calls)
       /\ task.pc = "none"
    \/ /\ resp.status = "error"
       /\ \A i \in 1..Len(calls) : calls[i].op \in DaemonOps => ~calls[i].ok

\* a smart-select or deselect request with a media and no torrent has been answered
NoTorrentDone ==
  /\ DownloadDone
  /\ req.smartSelect \/ req.deselect
  /\ Len(req.torrents) = 0
  /\ ~req.media.isNil

\* C36: a smart-select or deselect request with an empty torrent list is
\* answered with an error, and no torrent was handed to the client.
C36_NoTorrentRejected ==
  NoTorrentDone => resp = RespondWithError /\ HandedOver = 0

================================================================================
